---- MODULE Spec2Model ----
(***************************************************************************)
(* Model of the agent reasoning core of henry_clase_demo:                  *)
(*   - the two reasoning loops (src/agents/cot_agent.py, react_agent.py),  *)
(*   - the execution wrapper (src/agents/agent_executor.py),               *)
(*   - the LRU/TTL query cache (api/cache/query_cache.py),                 *)
(*   - the service entry point (api/services/agent_service.py) and the     *)
(*     execution store behind it (api/storage/execution_store.py),         *)
(*   - the HTTP application and its middleware (api/main.py,               *)
(*     api/middleware),                                                    *)
(*   - the model comparison (src/comparison/evaluator.py, metrics.py).     *)
(***************************************************************************)
EXTENDS Integers, Sequences, FiniteSets, TLC

(***************************************************************************)
(* Bounds of the model.                                                    *)
(***************************************************************************)
MaxCap == 3          \* largest max_iterations a caller passes
max_size == 2        \* QueryCache.max_size of the modelled cache instance
ttl_seconds == 1     \* QueryCache.ttl_seconds of the modelled cache instance
MaxTime == 2         \* the clock runs from 0 to MaxTime
MaxLookups == 3      \* lookups counted by hits + misses before a clear
MaxUuid == 2         \* uuid4 values drawn by execute_query
MaxModels == 2       \* models handed to one ModelEvaluator
NumTestCases == 2    \* test cases of one evaluation
cache_ttl == 1       \* CurrencyPriceTool.cache_ttl, in ticks of the tool's clock
ToolMaxTime == 2     \* the tool's clock runs from 0 to ToolMaxTime
BucketCapacity == 2  \* capacity of the modelled TokenBucket, in tokens
BucketMaxTime == 4   \* the bucket's clock runs from 0 to BucketMaxTime
BucketCap == 2       \* the number of buckets cleanup_old_buckets tolerates (10000)

(***************************************************************************)
(* Program constants.                                                      *)
(***************************************************************************)
DefaultMaxIterations == 5    \* run / run_agent / run_cot_agent default cap

NoneVal == "None"

MAX_ITER_ANSWER_COT ==
    "Maximum iterations reached without final answer. Please refine your query."

MAX_ITER_ANSWER_REACT == "Max iterations reached without final answer"

\* the tools AgentFactory._initialize_tools hands to every agent
ToolNames == {"pink_floyd_database", "currency_price_checker"}

\* what a tool returns when its invoke does not raise (str(result))
ToolOutput(tool_name) ==
    IF tool_name = "pink_floyd_database" THEN "Found 3 songs" ELSE "1 USD = 0.92 EUR"

\* the message of the exception a raising tool carries (str(e))
ToolExcMessage == "boom"

(***************************************************************************)
(* The model's answers.  A response is what llm_with_tools.invoke returns: *)
(* its text, its tool-call requests (tool names, in the order requested),  *)
(* and what ReasoningStructure.parse_reasoning extracts from the text:     *)
(* whether an understanding or plan section is present, and the confidence.*)
(***************************************************************************)
ToolCallingResponses ==
    { [content |-> "Understanding: songs. Plan: use the database.",
       tool_calls |-> <<"pink_floyd_database">>,
       sections |-> TRUE, confidence |-> "MEDIUM"],
      [content |-> "",
       tool_calls |-> <<"pink_floyd_database", "currency_price_checker">>,
       sections |-> FALSE, confidence |-> "MEDIUM"],
      [content |-> "",
       tool_calls |-> <<"unknown_tool">>,
       sections |-> FALSE, confidence |-> "MEDIUM"] }

ToolFreeResponses ==
    { [content |-> "The songs are Time and Us and Them. Confidence: HIGH",
       tool_calls |-> <<>>,
       sections |-> FALSE, confidence |-> "HIGH"],
      [content |-> "Understanding: nothing to look up. Final answer: none.",
       tool_calls |-> <<>>,
       sections |-> TRUE, confidence |-> "MEDIUM"] }

ModelResponses == ToolCallingResponses \cup ToolFreeResponses

Queries == {"Find melancholic Pink Floyd songs"}

VARIABLES
    \* ---- one execution of a reasoning loop ----
    pc,               \* position of the loop: idle/thinking/acting/done/max_iter/failed
    agent_type,       \* "cot" (CoTReActAgent.run) or "react" (run_agent)
    enable_reflection,\* run's enable_reflection argument
    query,            \* run's query argument
    max_iterations,   \* run's max_iterations argument
    iteration_count,  \* loop iterations begun = model invocations made
    step_num,         \* run_agent's step counter
    reasoning_trace,  \* the trace being accumulated
    messages,         \* the conversation handed to the model
    tool_calls,       \* tool calls of the current response not yet processed
    result,           \* the dictionary the loop returned (NoneVal while running)
    caller,           \* who started the loop: "direct" or "executor"
    tool_raised,      \* history: whether the last tool invocation raised
    exec_metrics,          \* what AgentExecutor.execute computed from the loop's result
    \* ---- the process-wide query cache and its callers ----
    cache,            \* QueryCache.cache: the OrderedDict, oldest entry first
    hits,             \* QueryCache.hits
    misses,           \* QueryCache.misses
    now,              \* time.time()
    next_uuid,        \* the next value uuid.uuid4() returns
    get_calls,        \* history: calls of QueryCache.get since construction or clear
    touched,          \* history: keys in the cache, least recently touched first
    last_op,          \* history: the last cache or service call and what it returned
    \* ---- _generate_cache_key applied to two triples ----
    fingerprints,     \* the two triples and the key computed for each
    \* ---- run_agent driven by the inputs of the CoT run above ----
    twin,             \* run_agent's locals: position, counters, trace, answer
    \* ---- the execution store behind the service ----
    store,            \* the rows of the executions table
    \* ---- the HTTP application and the rate limiter ----
    buckets,          \* RateLimiter.buckets: client identity -> token bucket
    app_time,         \* time.time() as the middleware reads it, in seconds
    admitted,         \* history: per client, the non-/health requests admitted
                      \* since time last advanced
    last_response,    \* history: the last response the application gave
    \* ---- one ModelEvaluator ----
    eval_pc,          \* idle, running (inside run_evaluation) or evaluated
    eval_models,      \* ModelEvaluator.models
    eval_index,       \* position of run_evaluation's "for model_name in self.models"
    eval_results,     \* ModelEvaluator.results: model name -> list of results
    eval_failed,      \* history: the models whose agent could not be constructed
    eval_raised,      \* history: the (model, test case) pairs whose execute raised
    eval_call         \* history: the last calculate_comparison / save_results

agent_vars == <<pc, agent_type, enable_reflection, query, max_iterations,
                iteration_count, step_num, reasoning_trace, messages,
                tool_calls, result, caller, tool_raised, exec_metrics>>

cache_vars == <<cache, hits, misses, now, next_uuid, get_calls, touched,
                last_op>>

key_vars == <<fingerprints>>

twin_vars == <<twin>>

store_vars == <<store>>

app_vars == <<buckets, app_time, admitted, last_response>>

eval_vars == <<eval_pc, eval_models, eval_index, eval_results, eval_failed, eval_raised,
               eval_call>>

\* the variables of the other components
\* the currency tool (src/tools/currency_tool.py)
VARIABLES
    tool_cache,       \* CurrencyPriceTool.cache: cache key -> time it was stored
    tool_now,         \* datetime.now() as the tool reads it, in ticks
    tool_last,        \* history: the last _run call and what it returned
    parsed            \* history: the last _parse_query call and its result

tool_vars == <<tool_cache, tool_now, tool_last>>

parse_vars == <<parsed>>

\* the query endpoint (src/api/routers/agent.py)
VARIABLES
    http_last         \* history: the last POST /agent/query and its response

router_vars == <<http_last>>

\* one TokenBucket (src/api/middleware/rate_limiter.py)
VARIABLES
    tb,               \* the bucket: capacity, refill_rate, tokens, last_refill
    tb_now,           \* time.time() as the bucket reads it, in ticks
    tb_last           \* history: the last consume call and what it returned

bucket_vars == <<tb, tb_now, tb_last>>

more_vars == <<tool_vars, parse_vars, router_vars, bucket_vars>>

ext_vars == <<key_vars, twin_vars, store_vars, app_vars, eval_vars, more_vars>>

vars == <<agent_vars, cache_vars, ext_vars>>

\* what a step of a reasoning loop leaves alone
outside_agent == <<cache_vars, ext_vars>>

\* what a call of the cache or of the service leaves alone
outside_cache == <<agent_vars, ext_vars>>

(***************************************************************************)
(* Trace steps and messages.                                               *)
(***************************************************************************)
Step(n, type, content, tool) ==
    [step |-> n, type |-> type, content |-> content, tool |-> tool]

Msg(role, content) == [role |-> role, content |-> content]

\* a plausible slip: the error text of run_agent, without the tool's name
ExecuteToolUnnamed(tool_name, raises) ==
    IF tool_name \notin ToolNames
    THEN "Error: Tool '" \o tool_name \o "' not found"
    ELSE IF raises
         THEN "Error executing tool: " \o ToolExcMessage
         ELSE ToolOutput(tool_name)

\* CoTReActAgent._execute_tool
ExecuteTool(tool_name, raises) ==
    IF tool_name \notin ToolNames
    THEN "Error: Tool '" \o tool_name \o "' not found"
    ELSE IF raises
         THEN "Error executing tool '" \o tool_name \o "': " \o ToolExcMessage
         ELSE ToolOutput(tool_name)

\* run_agent's inline tool dispatch
ReactExecuteTool(tool_name, raises) ==
    IF tool_name \notin ToolNames
    THEN "Tool " \o tool_name \o " not found"
    ELSE IF raises
         THEN "Error executing tool: " \o ToolExcMessage
         ELSE ToolOutput(tool_name)

\* a plausible slip: the loop over the requested calls left after the first
RemainingToolCallsNone(calls) == <<>>

\* "for tool_call in response.tool_calls": the calls left after one pass
RemainingToolCalls(calls) == Tail(calls)

\* CoTReActAgent._reflect_on_tool_result
ReflectOnToolResult(original_query) ==
    [step |-> -1, type |-> "reflection",
     content |-> "Tool result received. Assessing if this addresses the query: '"
                 \o original_query \o "...'",
     tool |-> NoneVal]

\* a plausible slip in the loop condition: one iteration too many
WhileConditionOffByOne(count, cap) == count <= cap

\* "while iteration_count < max_iterations" of CoTReActAgent.run
WhileCondition(count, cap) == count < cap

\* a plausible slip in the range: one iteration too many
InRangeInclusive(count, cap) == count <= cap

\* "for iteration in range(max_iterations)" of run_agent, count iterations begun
InRange(count, cap) == count < cap

\* a plausible slip: the synthesis step records the parsed section, not the answer
SynthesisStepOfSection(n, final_answer) ==
    Step(n, "synthesis", "final_answer section", NoneVal)

\* the synthesis step CoTReActAgent.run appends for a tool-free response
SynthesisStep(n, final_answer) == Step(n, "synthesis", final_answer, NoneVal)

\* the final step run_agent appends for a tool-free response
ThoughtStep(n, final_answer) == Step(n, "thought", final_answer, NoneVal)

(***************************************************************************)
(* The reasoning loops.                                                    *)
(***************************************************************************)
Terminal == {"done", "max_iter", "failed"}

\* execute has not computed anything for the current run
NoMetrics ==
    [computed |-> FALSE,
     estimated_tokens |-> [input |-> 0, output |-> 0, total |-> 0],
     num_steps |-> 0]

\* a plausible slip: every step of the trace is counted
IsCountedAlways(step) == TRUE

\* 'step["type"] in ["query", "action", "observation"]' of _estimate_tokens
IsCounted(step) == step.type \in {"query", "action", "observation"}

\* the loop "for step in trace" of _estimate_tokens over the first n steps:
\* len(str(step.get("content", ""))) of the steps that are counted
RECURSIVE TraceChars(_, _)
TraceChars(trace, n) ==
    IF n = 0 THEN 0
    ELSE TraceChars(trace, n - 1)
         + (IF IsCounted(trace[n]) THEN Len(trace[n].content) ELSE 0)

\* AgentExecutor._estimate_tokens
EstimateTokens(q, answer, trace) ==
    LET input_chars == Len(q) + TraceChars(trace, Len(trace))
        output_chars == Len(answer)
        input_tokens == input_chars \div 4
        output_tokens == output_chars \div 4
    IN  [input |-> input_tokens, output |-> output_tokens,
         total |-> input_tokens + output_tokens]

AgentInit ==
    /\ pc = "idle"
    /\ agent_type = "cot"
    /\ enable_reflection = TRUE
    /\ query = NoneVal
    /\ max_iterations = DefaultMaxIterations
    /\ iteration_count = 0
    /\ step_num = 1
    /\ reasoning_trace = <<>>
    /\ messages = <<>>
    /\ tool_calls = <<>>
    /\ result = NoneVal
    /\ caller = "direct"
    /\ tool_raised = FALSE
    /\ exec_metrics = NoMetrics

\* the code of run / run_agent before the loop: the query step and the
\* two seed messages
BeginLoop(kind, q, cap, refl, who) ==
    /\ pc \in {"idle"} \cup Terminal
    /\ pc' = "thinking"
    /\ agent_type' = kind
    /\ enable_reflection' = refl
    /\ query' = q
    /\ max_iterations' = cap
    /\ iteration_count' = 0
    /\ step_num' = 2
    /\ reasoning_trace' = <<Step(1, "query", q, NoneVal)>>
    /\ messages' = <<Msg("system", "system_prompt"), Msg("user", q)>>
    /\ tool_calls' = <<>>
    /\ result' = NoneVal
    /\ caller' = who
    /\ tool_raised' = FALSE
    /\ exec_metrics' = NoMetrics

Begin(kind, q, cap, refl, who) ==
    /\ BeginLoop(kind, q, cap, refl, who)
    /\ UNCHANGED outside_agent

\* CoTReActAgent.run called directly
RunCoT ==
    \E q \in Queries, cap \in 1..MaxCap, refl \in BOOLEAN :
        Begin("cot", q, cap, refl, "direct")

\* run_agent called directly
RunAgent ==
    \E q \in Queries, cap \in 1..MaxCap :
        Begin("react", q, cap, FALSE, "direct")

\* AgentExecutor.execute: run_cot_agent(agent, query) or run_agent(agent, query),
\* neither given a cap, so both run with their default
ExecutorExecute ==
    \E q \in Queries, is_cot_agent \in BOOLEAN :
        Begin(IF is_cot_agent THEN "cot" ELSE "react", q,
              DefaultMaxIterations, is_cot_agent, "executor")

\* the head of one iteration of CoTReActAgent.run: the model is invoked, the
\* thinking step recorded, and the response is either a request for tools or
\* the final answer
CoTThinkOn(response) ==
    /\ pc = "thinking"
    /\ agent_type = "cot"
    /\ WhileCondition(iteration_count, max_iterations)
    /\  LET trace1 == IF response.sections
                      THEN Append(reasoning_trace,
                                  Step(Len(reasoning_trace) + 1, "thinking",
                                       response.content, NoneVal))
                      ELSE reasoning_trace
            trace2 == Append(trace1, SynthesisStep(Len(trace1) + 1, response.content))
        IN  /\ iteration_count' = iteration_count + 1
            /\ IF response.tool_calls # <<>>
               THEN /\ reasoning_trace' = trace1
                    /\ messages' = Append(messages, Msg("assistant", response.content))
                    /\ tool_calls' = response.tool_calls
                    /\ pc' = "acting"
                    /\ result' = result
               ELSE /\ reasoning_trace' = trace2
                    /\ messages' = messages
                    /\ tool_calls' = <<>>
                    /\ pc' = "done"
                    /\ result' = [answer |-> response.content,
                                  metadata |->
                                    [iterations |-> iteration_count + 1,
                                     total_steps |-> Len(trace2),
                                     confidence |-> response.confidence,
                                     max_iterations_reached |-> NoneVal]]
    /\ UNCHANGED <<agent_type, enable_reflection, query, max_iterations,
                   step_num, caller, tool_raised, exec_metrics>>

CoTThink ==
    /\ \E response \in ModelResponses : CoTThinkOn(response)
    /\ UNCHANGED outside_agent

\* one pass of the body of "for tool_call in response.tool_calls" in
\* CoTReActAgent.run; raises tells whether the tool's invoke raised
CoTActOn(raises) ==
    /\ pc = "acting"
    /\ agent_type = "cot"
    /\  LET tool_name == Head(tool_calls)
            tool_result == ExecuteTool(tool_name, raises)
            trace1 == Append(reasoning_trace,
                             Step(Len(reasoning_trace) + 1, "action", "", tool_name))
            trace2 == Append(trace1,
                             Step(Len(trace1) + 1, "observation", tool_result, NoneVal))
            trace3 == IF enable_reflection
                      THEN Append(trace2, ReflectOnToolResult(query))
                      ELSE trace2
        IN  /\ (tool_name \notin ToolNames => ~raises)
            /\ reasoning_trace' = trace3
            /\ messages' = Append(messages, Msg("tool", tool_result))
            /\ tool_raised' = raises
    /\ tool_calls' = RemainingToolCalls(tool_calls)
    /\ pc' = IF RemainingToolCalls(tool_calls) = <<>> THEN "thinking" ELSE "acting"
    /\ UNCHANGED <<agent_type, enable_reflection, query, max_iterations,
                   iteration_count, step_num, result, caller, exec_metrics>>

CoTAct ==
    /\ \E raises \in BOOLEAN : CoTActOn(raises)
    /\ UNCHANGED outside_agent

\* CoTReActAgent.run falling out of its while loop
CoTFallOut ==
    /\ pc = "thinking"
    /\ agent_type = "cot"
    /\ ~WhileCondition(iteration_count, max_iterations)
    /\ pc' = "max_iter"
    /\ result' = [answer |-> MAX_ITER_ANSWER_COT,
                  metadata |->
                    [iterations |-> iteration_count,
                     total_steps |-> Len(reasoning_trace),
                     confidence |-> "LOW",
                     max_iterations_reached |-> TRUE]]
    /\ UNCHANGED <<agent_type, enable_reflection, query, max_iterations,
                   iteration_count, step_num, reasoning_trace, messages,
                   tool_calls, caller, tool_raised, exec_metrics>>

CoTMaxIter ==
    /\ CoTFallOut
    /\ UNCHANGED outside_agent

\* one iteration head of run_agent's "for iteration in range(max_iterations)"
ReactThink ==
    /\ pc = "thinking"
    /\ agent_type = "react"
    /\ InRange(iteration_count, max_iterations)
    /\ \E response \in ModelResponses :
        /\ iteration_count' = iteration_count + 1
        /\ IF response.tool_calls # <<>>
           THEN /\ reasoning_trace' = reasoning_trace
                /\ step_num' = step_num
                /\ messages' = Append(messages, Msg("assistant", response.content))
                /\ tool_calls' = response.tool_calls
                /\ pc' = "acting"
                /\ result' = result
           ELSE /\ reasoning_trace' =
                       Append(reasoning_trace, ThoughtStep(step_num, response.content))
                /\ step_num' = step_num
                /\ messages' = messages
                /\ tool_calls' = <<>>
                /\ pc' = "done"
                /\ result' = [answer |-> response.content, metadata |-> NoneVal]
    /\ UNCHANGED <<agent_type, enable_reflection, query, max_iterations, caller, tool_raised, exec_metrics>>
    /\ UNCHANGED outside_agent

\* one pass of the body of "for tool_call in response.tool_calls" in run_agent
ReactAct ==
    /\ pc = "acting"
    /\ agent_type = "react"
    /\ \E raises \in BOOLEAN :
        LET tool_name == Head(tool_calls)
            tool_result == ReactExecuteTool(tool_name, raises)
        IN  /\ (tool_name \notin ToolNames => ~raises)
            /\ reasoning_trace' =
                   reasoning_trace \o
                   << Step(step_num, "action", "", tool_name),
                      Step(step_num + 1, "observation", tool_result, NoneVal) >>
            /\ messages' = Append(messages, Msg("tool", tool_result))
            /\ tool_raised' = raises
    /\ step_num' = step_num + 2
    /\ tool_calls' = RemainingToolCalls(tool_calls)
    /\ pc' = IF RemainingToolCalls(tool_calls) = <<>> THEN "thinking" ELSE "acting"
    /\ UNCHANGED <<agent_type, enable_reflection, query, max_iterations,
                   iteration_count, result, caller, exec_metrics>>
    /\ UNCHANGED outside_agent

\* run_agent falling out of its for loop
ReactMaxIter ==
    /\ pc = "thinking"
    /\ agent_type = "react"
    /\ ~InRange(iteration_count, max_iterations)
    /\ pc' = "max_iter"
    /\ result' = [answer |-> MAX_ITER_ANSWER_REACT, metadata |-> NoneVal]
    /\ UNCHANGED <<agent_type, enable_reflection, query, max_iterations,
                   iteration_count, step_num, reasoning_trace, messages,
                   tool_calls, caller, tool_raised, exec_metrics>>
    /\ UNCHANGED outside_agent

\* llm_with_tools.invoke raises (network, auth, quota): neither loop catches
\* it, the exception leaves run / run_agent
ModelRaises ==
    /\ pc = "thinking"
    /\ IF agent_type = "cot"
       THEN WhileCondition(iteration_count, max_iterations)
       ELSE InRange(iteration_count, max_iterations)
    /\ iteration_count' = iteration_count + 1
    /\ pc' = "failed"
    /\ UNCHANGED <<agent_type, enable_reflection, query, max_iterations,
                   step_num, reasoning_trace, messages, tool_calls, result,
                   caller, tool_raised, exec_metrics>>

ModelFails ==
    /\ ModelRaises
    /\ UNCHANGED outside_agent

\* AgentExecutor.execute after the loop has returned its result: the token
\* estimate and the number of steps (the time and the cost, both floats,
\* are left out)
ExecutorReturn ==
    /\ caller = "executor"
    /\ pc \in {"done", "max_iter"}
    /\ ~exec_metrics.computed
    /\ exec_metrics' = [computed |-> TRUE,
                   estimated_tokens |->
                       EstimateTokens(query, result.answer, reasoning_trace),
                   num_steps |-> Len(reasoning_trace)]
    /\ UNCHANGED <<pc, agent_type, enable_reflection, query, max_iterations,
                   iteration_count, step_num, reasoning_trace, messages,
                   tool_calls, result, caller, tool_raised>>
    /\ UNCHANGED outside_agent

LoopStep ==
    \/ CoTThink \/ CoTAct \/ CoTMaxIter
    \/ ReactThink \/ ReactAct \/ ReactMaxIter
    \/ ModelFails

AgentNext ==
    \/ RunCoT \/ RunAgent \/ ExecutorExecute
    \/ LoopStep
    \/ ExecutorReturn

(***************************************************************************)
(* The two loops side by side: run_agent given the query, the cap, the     *)
(* model responses and the tool outcomes of a run of CoTReActAgent.run.    *)
(***************************************************************************)

\* what a step of the pair leaves alone
outside_twin == <<cache_vars, key_vars, store_vars, app_vars, eval_vars,
                  more_vars>>

\* run_agent before its loop
TwinStart(q) ==
    [pc |-> "thinking", iteration_count |-> 0, step_num |-> 2,
     reasoning_trace |-> <<Step(1, "query", q, NoneVal)>>,
     tool_calls |-> <<>>, answer |-> NoneVal]

\* one iteration head of run_agent
ReactThinkEffect(t, response) ==
    IF response.tool_calls # <<>>
    THEN [t EXCEPT !.iteration_count = @ + 1,
                   !.tool_calls = response.tool_calls,
                   !.pc = "acting"]
    ELSE [t EXCEPT !.iteration_count = @ + 1,
                   !.reasoning_trace =
                       Append(@, ThoughtStep(t.step_num, response.content)),
                   !.pc = "done",
                   !.answer = response.content]

\* one pass of run_agent's "for tool_call in response.tool_calls"
ReactActEffect(t, raises) ==
    LET tool_name == Head(t.tool_calls)
        tool_result == ReactExecuteTool(tool_name, raises)
    IN  [t EXCEPT !.reasoning_trace =
                      @ \o << Step(t.step_num, "action", "", tool_name),
                              Step(t.step_num + 1, "observation", tool_result,
                                   NoneVal) >>,
                  !.step_num = @ + 2,
                  !.tool_calls = Tail(@),
                  !.pc = IF Tail(t.tool_calls) = <<>> THEN "thinking" ELSE "acting"]

\* run_agent falling out of its for loop
ReactFallOutEffect(t) ==
    [t EXCEPT !.pc = "max_iter", !.answer = MAX_ITER_ANSWER_REACT]

TwinInit ==
    twin = [pc |-> "idle", iteration_count |-> 0, step_num |-> 1,
            reasoning_trace |-> <<>>, tool_calls |-> <<>>, answer |-> NoneVal]

\* both loops are called with the same query and cap
TwinBegin ==
    /\ \E q \in Queries, cap \in 1..MaxCap, refl \in BOOLEAN :
        /\ BeginLoop("cot", q, cap, refl, "direct")
        /\ twin' = TwinStart(q)
    /\ UNCHANGED outside_twin

\* both loops are given the same model response
TwinThink ==
    /\ twin.pc = "thinking"
    /\ InRange(twin.iteration_count, max_iterations)
    /\ \E response \in ModelResponses :
        /\ CoTThinkOn(response)
        /\ twin' = ReactThinkEffect(twin, response)
    /\ UNCHANGED outside_twin

\* both loops invoke the tool, with the same outcome
TwinAct ==
    /\ twin.pc = "acting"
    /\ \E raises \in BOOLEAN :
        /\ CoTActOn(raises)
        /\ twin' = ReactActEffect(twin, raises)
    /\ UNCHANGED outside_twin

\* both loops run out of iterations
TwinMaxIter ==
    /\ twin.pc = "thinking"
    /\ ~InRange(twin.iteration_count, max_iterations)
    /\ CoTFallOut
    /\ twin' = ReactFallOutEffect(twin)
    /\ UNCHANGED outside_twin

\* the model invocation raises in both loops
TwinFails ==
    /\ twin.pc = "thinking"
    /\ InRange(twin.iteration_count, max_iterations)
    /\ ModelRaises
    /\ twin' = [twin EXCEPT !.pc = "failed", !.iteration_count = @ + 1]
    /\ UNCHANGED outside_twin

TwinNext == TwinBegin \/ TwinThink \/ TwinAct \/ TwinMaxIter \/ TwinFails

(***************************************************************************)
(* The query cache (api/cache/query_cache.py).                             *)
(***************************************************************************)

\* the (query, model, temperature) triples callers look up; the temperature
\* is carried in the form the f-string of _generate_cache_key prints it, and
\* one query is longer than the 100 characters execute_query reports of it
LongQuery ==
    "Find the melancholic Pink Floyd songs of the 1970s, list their albums, and convert 25 USD, the price of one album, to EUR"

Requests ==
    { <<"q1", "gpt-4o-mini", "0.1">>,
      <<LongQuery, "gpt-4o-mini", "0.1">>,
      <<"q1", "gpt-4o", "0.1">> }

\* the results a caller of set() stores, in the shape execute_query builds
Results ==
    { [execution_id |-> 101, timestamp |-> 0, from_cache |-> FALSE,
       answer |-> "answer a"],
      [execution_id |-> 102, timestamp |-> 0, from_cache |-> FALSE,
       answer |-> "answer b"] }

\* QueryCache._generate_cache_key: the string that is hashed; the truncated
\* SHA-256 of it is taken to be distinct for distinct strings
GenerateCacheKey(q, m, t) == q \o "|" \o m \o "|" \o t

KeyOf(req) == GenerateCacheKey(req[1], req[2], req[3])

CacheKeys(c) == {c[i].key : i \in 1..Len(c)}

IndexOf(c, key) == CHOOSE i \in 1..Len(c) : c[i].key = key

\* del self.cache[key]
Delete(c, key) == SelectSeq(c, LAMBDA e : e.key # key)

\* a plausible slip: the recency update is missing
MoveToEndMissing(c, key) == c

\* self.cache.move_to_end(key)
MoveToEnd(c, key) == Append(Delete(c, key), c[IndexOf(c, key)])

\* self.cache[key] = entry: a present key keeps its position
Assign(c, entry) ==
    IF entry.key \in CacheKeys(c)
    THEN [c EXCEPT ![IndexOf(c, entry.key)] = entry]
    ELSE Append(c, entry)

\* a plausible slip: the TTL test is inverted
IsExpiredInverted(entry, t) == t - entry.timestamp < ttl_seconds

\* "time.time() - entry['timestamp'] > self.ttl_seconds"
IsExpired(entry, t) == t - entry.timestamp > ttl_seconds

\* a plausible slip: a full cache evicts also when the key is already present
NeedsEvictionAlways(c, key) == Len(c) >= max_size

\* "len(self.cache) >= self.max_size and cache_key not in self.cache"
NeedsEviction(c, key) == Len(c) >= max_size /\ key \notin CacheKeys(c)

\* a plausible slip: the lookup of an expired entry counted as a hit
GetEffectExpiredIsHit(c, key, t) ==
    IF key \notin CacheKeys(c)
    THEN [cache |-> c, hit |-> FALSE, value |-> NoneVal, outcome |-> "absent"]
    ELSE IF IsExpired(c[IndexOf(c, key)], t)
         THEN [cache |-> Delete(c, key), hit |-> TRUE, value |-> NoneVal,
               outcome |-> "expired"]
         ELSE [cache |-> MoveToEnd(c, key), hit |-> TRUE,
               value |-> c[IndexOf(c, key)].result, outcome |-> "hit"]

\* QueryCache.get: the cache it leaves and what it returns
GetEffect(c, key, t) ==
    IF key \notin CacheKeys(c)
    THEN [cache |-> c, hit |-> FALSE, value |-> NoneVal, outcome |-> "absent"]
    ELSE IF IsExpired(c[IndexOf(c, key)], t)
         THEN [cache |-> Delete(c, key), hit |-> FALSE, value |-> NoneVal,
               outcome |-> "expired"]
         ELSE [cache |-> MoveToEnd(c, key), hit |-> TRUE,
               value |-> c[IndexOf(c, key)].result, outcome |-> "hit"]

\* QueryCache.set: the cache it leaves and the key it evicted
SetEffect(c, key, res, t) ==
    LET evict == NeedsEviction(c, key)
        c1 == IF evict THEN Tail(c) ELSE c
        c2 == Assign(c1, [key |-> key, result |-> res, timestamp |-> t])
    IN  [cache |-> MoveToEnd(c2, key),
         removed_key |-> IF evict THEN Head(c).key ELSE NoneVal,
         outcome |-> IF key \in CacheKeys(c) THEN "present" ELSE "new"]

\* the recency order a least-recently-used cache has to keep
Touch(order, key) == Append(SelectSeq(order, LAMBDA k : k # key), key)

Forget(order, gone) == SelectSeq(order, LAMBDA k : k \notin gone)

\* the record of a call: its name and key, whether a lookup hit, the value
\* it returned (the key it evicted, for set), which branch it took, and for
\* execute_query the cap requested, the cap the loop was given and the
\* details of the error raised
Op(name, key, hit, value, outcome) ==
    [op |-> name, key |-> key, hit |-> hit, value |-> value, at |-> now,
     outcome |-> outcome, max_iterations |-> 0, loop_cap |-> 0,
     details |-> NoneVal]

CacheInit ==
    /\ cache = <<>>
    /\ hits = 0
    /\ misses = 0
    /\ now = 0
    /\ next_uuid = 1
    /\ get_calls = 0
    /\ touched = <<>>
    /\ last_op = Op("init", NoneVal, FALSE, NoneVal, NoneVal)

\* time passes
Tick ==
    /\ now < MaxTime
    /\ now' = now + 1
    /\ UNCHANGED <<cache, hits, misses, next_uuid, get_calls, touched, last_op>>
    /\ UNCHANGED outside_cache

\* QueryCache.get
Get ==
    /\ hits + misses < MaxLookups
    /\ \E req \in Requests :
        LET key == KeyOf(req)
            eff == GetEffect(cache, key, now)
        IN  /\ cache' = eff.cache
            /\ hits' = IF eff.hit THEN hits + 1 ELSE hits
            /\ misses' = IF eff.hit THEN misses ELSE misses + 1
            /\ touched' = IF eff.hit THEN Touch(touched, key)
                          ELSE Forget(touched, {key} \ CacheKeys(eff.cache))
            /\ last_op' = Op("get", key, eff.hit, eff.value, eff.outcome)
    /\ get_calls' = get_calls + 1
    /\ UNCHANGED <<now, next_uuid>>
    /\ UNCHANGED outside_cache

\* QueryCache.set
Set ==
    /\ \E req \in Requests, res \in Results :
        LET key == KeyOf(req)
            eff == SetEffect(cache, key, res, now)
        IN  /\ cache' = eff.cache
            /\ touched' = Touch(Forget(touched,
                                       CacheKeys(cache) \ CacheKeys(eff.cache)), key)
            /\ last_op' = Op("set", key, FALSE, eff.removed_key, eff.outcome)
    /\ UNCHANGED <<hits, misses, now, next_uuid, get_calls>>
    /\ UNCHANGED outside_cache

\* QueryCache.cleanup_expired
CleanupExpired ==
    /\ cache' = SelectSeq(cache, LAMBDA e : ~IsExpired(e, now))
    /\ touched' = Forget(touched, CacheKeys(cache) \ CacheKeys(cache'))
    /\ last_op' = Op("cleanup_expired", NoneVal, FALSE, NoneVal, NoneVal)
    /\ UNCHANGED <<hits, misses, now, next_uuid, get_calls>>
    /\ UNCHANGED outside_cache

\* QueryCache.clear
Clear ==
    /\ cache' = <<>>
    /\ hits' = 0
    /\ misses' = 0
    /\ touched' = <<>>
    /\ last_op' = Op("clear", NoneVal, FALSE, NoneVal, NoneVal)
    /\ get_calls' = 0
    /\ UNCHANGED <<now, next_uuid>>
    /\ UNCHANGED outside_cache

CacheNext == Tick \/ Get \/ Set \/ CleanupExpired \/ Clear

(***************************************************************************)
(* The service entry point (api/services/agent_service.py).                *)
(***************************************************************************)

\* the scan of the trace execute_query makes for metrics.tools_used, over
\* the first n steps: the tools of the action steps, each once, first seen first
RECURSIVE ToolsUsedIn(_, _)
ToolsUsedIn(trace, n) ==
    IF n = 0
    THEN <<>>
    ELSE LET tools_used == ToolsUsedIn(trace, n - 1)
             step == trace[n]
         IN  IF /\ step.type = "action"
                /\ step.tool \notin {NoneVal, ""}
                /\ \A i \in 1..Len(tools_used) : tools_used[i] # step.tool
             THEN Append(tools_used, step.tool)
             ELSE tools_used

ToolsUsed(trace) == ToolsUsedIn(trace, Len(trace))

\* query[:n]
Truncate(q, n) == IF Len(q) <= n THEN q ELSE SubSeq(q, 1, n)

\* a plausible slip: the whole query is reported
ErrorDetailsUntruncated(model, q) == [model |-> model, query |-> q]

\* the details of the ModelError execute_query raises
ErrorDetails(model, q) == [model |-> model, query |-> Truncate(q, 100)]

\* ExecutionStore of a fresh database file: no rows
StoreInit == store = {}

\* ExecutionStore.get_execution, which AgentService.get_execution_detail
\* returns as it is: the row with that id, or None
GetExecution(rows, execution_id) ==
    IF \E row \in rows : row.execution_id = execution_id
    THEN [found |-> TRUE,
          result |-> CHOOSE row \in rows : row.execution_id = execution_id]
    ELSE [found |-> FALSE, result |-> NoneVal]

\* the max_iterations values requests carry
RequestCaps == {1, MaxCap}

\* AgentService.execute_query(query, model, temperature, max_iterations).
\* A hit is served from the dictionary the cache entry holds: get returns
\* entry["result"] itself and the three assignments write into it.
\* On a miss the agent and the executor are created and "await
\* executor.execute(query)" is evaluated: execute is a plain function that
\* calls asyncio.run(run_cot_agent(self.agent, query)); the coroutine is
\* created with run_cot_agent's default cap, and asyncio.run, called while
\* the event loop that runs execute_query is running, raises RuntimeError
\* before the coroutine makes a step.  The except clause turns it into
\* ModelError carrying the model and query[:100]; the statements after the
\* await (tools_used, query_cache.set, execution_store.save_execution) are
\* not reached, so nothing is cached or saved.
ExecuteQueryOn(req, n) ==
    /\ get_calls' = get_calls + 1
    /\ LET key == KeyOf(req)
           eff == GetEffect(cache, key, now)
       IN  IF eff.hit
            THEN LET cached_result ==
                         [eff.value EXCEPT !.execution_id = next_uuid,
                                           !.timestamp = now,
                                           !.from_cache = TRUE]
                 IN  /\ cache' = [eff.cache EXCEPT
                                    ![IndexOf(eff.cache, key)].result = cached_result]
                     /\ hits' = hits + 1
                     /\ misses' = misses
                     /\ touched' = Touch(touched, key)
                     /\ last_op' = [Op("execute_query", key, TRUE, cached_result,
                                       "returned")
                                    EXCEPT !.max_iterations = n]
            ELSE /\ cache' = eff.cache
                 /\ hits' = hits
                 /\ misses' = misses + 1
                 /\ touched' = Forget(touched, {key} \ CacheKeys(eff.cache))
                 /\ last_op' = [Op("execute_query", key, FALSE, NoneVal,
                                   "ModelError")
                                EXCEPT !.max_iterations = n,
                                       !.loop_cap = DefaultMaxIterations,
                                       !.details = ErrorDetails(req[2], req[1])]

\* a call of execute_query by a user of the service
ExecuteQuery ==
    /\ hits + misses < MaxLookups
    /\ next_uuid <= MaxUuid
    /\ \E req \in Requests, n \in RequestCaps : ExecuteQueryOn(req, n)
    /\ next_uuid' = next_uuid + 1
    /\ UNCHANGED now
    /\ UNCHANGED outside_cache

\* the service is the reader of the cache; its direct callers store, clear
\* and let time pass
ServiceNext == Tick \/ Set \/ Clear \/ ExecuteQuery

(***************************************************************************)
(* The cache fingerprint as a function (QueryCache._generate_cache_key).   *)
(***************************************************************************)

\* the queries, model names and temperatures (in tenths) a request may
\* carry: AgentQueryRequest takes any string of 1..2000 characters as query,
\* any string as model, and a float in [0, 1] as temperature, and
\* execute_query looks the triple up before the model name is validated
KeyQueries == {"q1", "q2", "q1|gpt-4o"}

KeyModels == {"gpt-4o-mini", "gpt-4o", "gpt-4o|gpt-4o-mini"}

KeyTemperatures == {1, 7}

KeyInputs == KeyQueries \X KeyModels \X KeyTemperatures

Digits == <<"0", "1", "2", "3", "4", "5", "6", "7", "8", "9">>

\* "{temperature}" in the f-string: the repr of a float with one decimal
FormatTemperature(tenths) ==
    Digits[(tenths \div 10) + 1] \o "." \o Digits[(tenths % 10) + 1]

\* _generate_cache_key on a request triple
Fingerprint(triple) ==
    GenerateCacheKey(triple[1], triple[2], FormatTemperature(triple[3]))

KeyInit ==
    fingerprints = [computed |-> FALSE, a |-> <<"q1", "gpt-4o-mini", 1>>,
                    b |-> <<"q1", "gpt-4o-mini", 1>>,
                    key_a |-> NoneVal, key_b |-> NoneVal]

\* two calls of _generate_cache_key
GenerateKeys ==
    /\ \E a \in KeyInputs, b \in KeyInputs :
        fingerprints' = [computed |-> TRUE, a |-> a, b |-> b,
                         key_a |-> Fingerprint(a), key_b |-> Fingerprint(b)]
    /\ UNCHANGED <<agent_vars, cache_vars, twin_vars, store_vars, app_vars,
                   eval_vars, more_vars>>

KeyNext == GenerateKeys

(***************************************************************************)
(* The HTTP application (api/main.py) and the middleware functions of     *)
(* api/middleware (rate_limiter.py, security_headers.py).                  *)
(***************************************************************************)

\* _rate_limiter = RateLimiter(requests_per_minute=60)
requests_per_minute == 60

\* RateLimiter.capacity
capacity == requests_per_minute

\* RateLimiter.refill_rate, tokens per second
refill_rate == requests_per_minute \div 60

\* the timeout asyncio.wait_for is given in timeout_middleware
TimeoutSeconds == 60

\* the middleware the application is built with: app.add_middleware(
\* CORSMiddleware, ...) and app.middleware("http")(log_requests)
AppMiddleware == {"CORSMiddleware", "log_requests"}

Clients == {"10.0.0.1", "10.0.0.2"}

Paths == {"/health", "/api/v1/agent/query"}

\* how long the route handler takes, in seconds
HandlingSeconds == {1, TimeoutSeconds + 1}

Min(a, b) == IF a < b THEN a ELSE b

\* TokenBucket.__init__
NewBucket(t) == [tokens |-> capacity, last_refill |-> t]

\* TokenBucket.consume(1): the bucket it leaves and what it returns
Consume(bucket, t) ==
    LET time_passed == t - bucket.last_refill
        tokens == Min(capacity, bucket.tokens + time_passed * refill_rate)
    IN  IF tokens >= 1
        THEN [bucket |-> [tokens |-> tokens - 1, last_refill |-> t],
              allowed |-> TRUE]
        ELSE [bucket |-> [tokens |-> tokens, last_refill |-> t],
              allowed |-> FALSE]

\* TokenBucket.get_wait_time
GetWaitTime(bucket) ==
    IF bucket.tokens >= 1 THEN 0 ELSE (1 - bucket.tokens) \div refill_rate

\* RateLimiter.check_rate_limit: buckets is a defaultdict, a client seen for
\* the first time gets a full bucket
CheckRateLimit(bs, client_ip, t) ==
    LET bucket == IF client_ip \in DOMAIN bs THEN bs[client_ip] ELSE NewBucket(t)
        consumed == Consume(bucket, t)
        others == DOMAIN bs \ {client_ip}
    IN  [buckets |-> [c \in DOMAIN bs \cup {client_ip} |->
                         IF c = client_ip THEN consumed.bucket ELSE bs[c]],
         allowed |-> consumed.allowed,
         wait_time |-> IF consumed.allowed THEN 0
                       ELSE GetWaitTime(consumed.bucket)]

\* rate_limit_middleware: /health passes unchecked, a request the limiter
\* refuses is answered 429 with Retry-After int(wait_time) + 1
RateLimitMiddleware(bs, client_ip, path, t) ==
    IF path = "/health"
    THEN [buckets |-> bs, rejected |-> FALSE, retry_after |-> 0]
    ELSE LET checked == CheckRateLimit(bs, client_ip, t)
         IN  [buckets |-> checked.buckets,
              rejected |-> ~checked.allowed,
              retry_after |-> IF checked.allowed THEN 0
                              ELSE checked.wait_time + 1]

\* what the caller is sent
Response(client, path, status, body, seconds, retry_after) ==
    [client |-> client, path |-> path, status |-> status, body |-> body,
     seconds |-> seconds, retry_after |-> retry_after]

AppInit ==
    /\ buckets = << >>
    /\ app_time = 0
    /\ admitted = [c \in Clients |-> 0]
    /\ last_response = Response(NoneVal, NoneVal, 0, NoneVal, 0, 0)

\* time passes
AppTick ==
    /\ app_time < MaxTime
    /\ app_time' = app_time + 1
    /\ admitted' = [c \in Clients |-> 0]
    /\ UNCHANGED <<buckets, last_response>>
    /\ UNCHANGED <<agent_vars, cache_vars, key_vars, twin_vars, store_vars,
                   eval_vars, more_vars>>

\* one request through the application: the middleware it was built with,
\* then the route handler, which takes some seconds and answers
HandleRequest ==
    /\ \E client \in Clients, path \in Paths, seconds \in HandlingSeconds :
        LET limited == IF "rate_limit_middleware" \in AppMiddleware
                       THEN RateLimitMiddleware(buckets, client, path, app_time)
                       ELSE [buckets |-> buckets, rejected |-> FALSE,
                             retry_after |-> 0]
            timed_out == /\ "timeout_middleware" \in AppMiddleware
                         /\ seconds > TimeoutSeconds
        IN  /\ admitted[client] <= capacity
            /\ buckets' = limited.buckets
            /\ admitted' = IF path # "/health" /\ ~limited.rejected
                           THEN [admitted EXCEPT ![client] = @ + 1]
                           ELSE admitted
            /\ last_response' =
                  IF limited.rejected
                  THEN Response(client, path, 429, "Rate limit exceeded", 0,
                                limited.retry_after)
                  ELSE IF timed_out
                       THEN Response(client, path, 504, "Gateway Timeout",
                                     TimeoutSeconds, 0)
                       ELSE Response(client, path, 200, "result", seconds, 0)
    /\ UNCHANGED app_time
    /\ UNCHANGED <<agent_vars, cache_vars, key_vars, twin_vars, store_vars,
                   eval_vars, more_vars>>

AppNext == AppTick \/ HandleRequest

(***************************************************************************)
(* One TokenBucket and the RateLimiter's middleware called directly         *)
(* (src/api/middleware/rate_limiter.py).  The bucket's clock ticks every   *)
(* half second and its tokens are counted in halves, so that a bucket can  *)
(* hold a fraction of a token.                                             *)
(***************************************************************************)

\* ticks per second and parts per token
TokenUnit == 2

\* TokenBucket.__init__(capacity, refill_rate) at time t, with one token
\* refilled per second
TokenBucketInit(t) ==
    [capacity |-> BucketCapacity * TokenUnit, refill_rate |-> 1,
     tokens |-> BucketCapacity * TokenUnit, last_refill |-> t]

\* a plausible slip: any fraction of a token admits the request
TokenBucketConsumeAnyFraction(b, t) ==
    LET time_passed == t - b.last_refill
        tokens == Min(b.capacity, b.tokens + time_passed * b.refill_rate)
    IN  IF tokens > 0
        THEN [bucket |-> [b EXCEPT !.tokens = tokens - TokenUnit,
                                   !.last_refill = t],
              allowed |-> TRUE]
        ELSE [bucket |-> [b EXCEPT !.tokens = tokens, !.last_refill = t],
              allowed |-> FALSE]

\* TokenBucket.consume(tokens=1) at time t: the refill, then the test
\* "self.tokens >= tokens"
TokenBucketConsume(b, t) ==
    LET time_passed == t - b.last_refill
        tokens == Min(b.capacity, b.tokens + time_passed * b.refill_rate)
    IN  IF tokens >= TokenUnit
        THEN [bucket |-> [b EXCEPT !.tokens = tokens - TokenUnit,
                                   !.last_refill = t],
              allowed |-> TRUE]
        ELSE [bucket |-> [b EXCEPT !.tokens = tokens, !.last_refill = t],
              allowed |-> FALSE]

BucketInit ==
    /\ tb = TokenBucketInit(0)
    /\ tb_now = 0
    /\ tb_last = [called |-> FALSE, allowed |-> FALSE, flip |-> FALSE]

\* the clock moves on (it never goes back)
BucketTick ==
    /\ tb_now < BucketMaxTime
    /\ tb_now' = tb_now + 1
    /\ UNCHANGED <<tb, tb_last>>
    /\ UNCHANGED <<agent_vars, cache_vars, key_vars, twin_vars, store_vars,
                   app_vars, eval_vars, tool_vars, parse_vars, router_vars>>

\* a call of TokenBucket.consume
BucketConsume ==
    /\ LET consumed == TokenBucketConsume(tb, tb_now)
       IN  /\ tb' = consumed.bucket
           /\ tb_last' = [called |-> TRUE, allowed |-> consumed.allowed,
                          flip |-> ~tb_last.flip]
    /\ UNCHANGED tb_now
    /\ UNCHANGED <<agent_vars, cache_vars, key_vars, twin_vars, store_vars,
                   app_vars, eval_vars, tool_vars, parse_vars, router_vars>>

BucketNext == BucketTick \/ BucketConsume

\* the client addresses that reach the limiter: two more than the number of
\* buckets cleanup_old_buckets tolerates
LimiterClients == {"10.0.0." \o Digits[i] : i \in 1..(BucketCap + 2)}

\* RateLimiter.cleanup_old_buckets, with its threshold of 10000 scaled down
CleanupOldBuckets(bs) ==
    IF Cardinality(DOMAIN bs) > BucketCap THEN << >> ELSE bs

\* rate_limit_middleware called for one request (by a caller that installs
\* it): check_rate_limit, then 429 or the route handler's answer.  Nothing
\* in it, and nothing else in the repository, calls cleanup_old_buckets.
LimitedRequest ==
    /\ \E client \in LimiterClients, path \in Paths :
        LET limited == RateLimitMiddleware(buckets, client, path, app_time)
        IN  /\ client \in DOMAIN buckets =>
                  buckets[client].tokens > capacity - 2
            /\ buckets' = limited.buckets
            /\ last_response' =
                  IF limited.rejected
                  THEN Response(client, path, 429, "Rate limit exceeded", 0,
                                limited.retry_after)
                  ELSE Response(client, path, 200, "result", 1, 0)
    /\ UNCHANGED <<app_time, admitted>>
    /\ UNCHANGED <<agent_vars, cache_vars, key_vars, twin_vars, store_vars,
                   eval_vars, more_vars>>

LimiterNext == LimitedRequest

(***************************************************************************)
(* The model comparison (src/comparison/evaluator.py, metrics.py).         *)
(***************************************************************************)

\* AgentFactory.SUPPORTED_MODELS
SUPPORTED_MODELS == {"gpt-4o-mini", "gpt-4o", "gpt-5-nano"}

\* the model names an evaluator may be given
EvalModelNames == {"gpt-4o-mini", "gpt-4o", "gpt-3"}

\* the lists of models: up to MaxModels names, none twice
ModelLists ==
    { models \in UNION {[1..n -> EvalModelNames] : n \in 1..MaxModels} :
        \A i, j \in 1..Len(models) : i # j => models[i] # models[j] }

\* what executor.execute gives for a test case: its answer, its time in
\* hundredths of a second and its cost in millionths of a dollar
ExecutedResult(model_name, test_case) ==
    [answer |-> "Time and Us and Them",
     test_case |-> test_case,
     execution_time_seconds |-> IF model_name = "gpt-4o-mini" THEN 150 ELSE 225,
     estimated_tokens |-> 40,
     estimated_cost_usd |-> IF model_name = "gpt-4o-mini" THEN 12 ELSE 310,
     num_steps |-> 4]

\* the record run_evaluation appends when executor.execute raises
ErrorResult(model_name, test_case) ==
    [answer |-> "Error: " \o ToolExcMessage,
     test_case |-> test_case,
     execution_time_seconds |-> 0,
     estimated_tokens |-> 0,
     estimated_cost_usd |-> 0,
     num_steps |-> 0]

\* a plausible slip: the first test case that raises ends the model's list
ModelResultsUntilFailure(model_name, executes) ==
    LET ok == {i \in 1..NumTestCases : \A j \in 1..i : executes[j]}
    IN  [i \in 1..Cardinality(ok) |-> ExecutedResult(model_name, i)]

\* "for i, test_case in enumerate(test_cases, 1)" of run_evaluation:
\* executes[i] tells whether executor.execute returned for test case i
ModelResults(model_name, executes) ==
    [i \in 1..NumTestCases |->
        IF executes[i] THEN ExecutedResult(model_name, i)
        ELSE ErrorResult(model_name, i)]

\* round(a / n, digits) on the scaled integers: to nearest, ties to even
RoundHalfEven(a, n) ==
    LET q == a \div n
        r == a % n
    IN  IF 2 * r < n THEN q
        ELSE IF 2 * r > n THEN q + 1
        ELSE IF q % 2 = 0 THEN q ELSE q + 1

RECURSIVE SumOf(_, _)
SumOf(results, field) ==
    IF results = <<>> THEN 0
    ELSE Head(results)[field] + SumOf(Tail(results), field)

\* str.lower on one character, for the letters of "error"
LowerChar(c) ==
    CASE c = "E" -> "e" [] c = "R" -> "r" [] c = "O" -> "o" [] OTHER -> c

\* "error" in answer.lower()
ContainsError(answer) ==
    \E i \in 1..(Len(answer) - 4) :
        LowerChar(SubSeq(answer, i, i)) \o LowerChar(SubSeq(answer, i + 1, i + 1))
        \o LowerChar(SubSeq(answer, i + 2, i + 2))
        \o LowerChar(SubSeq(answer, i + 3, i + 3))
        \o LowerChar(SubSeq(answer, i + 4, i + 4)) = "error"

\* MetricsCalculator.calculate_execution_metrics, the entries compare_models
\* reads: an empty list gives the empty dictionary
CalculateExecutionMetrics(results) ==
    IF results = <<>>
    THEN [empty |-> TRUE, execution_time_mean |-> 0, cost_total |-> 0]
    ELSE [empty |-> FALSE,
          execution_time_mean |->
              RoundHalfEven(SumOf(results, "execution_time_seconds"), Len(results)),
          cost_total |-> SumOf(results, "estimated_cost_usd")]

\* MetricsCalculator.calculate_success_rate, in tenths of a percent
CalculateSuccessRate(results) ==
    IF results = <<>>
    THEN 0
    ELSE LET successful ==
                 Cardinality({i \in 1..Len(results) :
                                 /\ results[i].answer # ""
                                 /\ ~ContainsError(results[i].answer)})
         IN  RoundHalfEven(successful * 1000, Len(results))

\* min(comparison.items(), key=...)[0] and max(...)[0]: the first model, in
\* the order the results were recorded, with the least (greatest) key
FirstLeast(models, key) ==
    models[CHOOSE i \in 1..Len(models) :
              /\ \A j \in 1..Len(models) : key[models[i]] <= key[models[j]]
              /\ \A j \in 1..(i - 1) : key[models[j]] > key[models[i]]]

FirstGreatest(models, key) ==
    models[CHOOSE i \in 1..Len(models) :
              /\ \A j \in 1..Len(models) : key[models[i]] >= key[models[j]]
              /\ \A j \in 1..(i - 1) : key[models[j]] < key[models[i]]]

\* MetricsCalculator.compare_models on the results recorded for the models
\* (in the order recorded).  The keys of "fastest" and "cheapest" read
\* metrics["execution_time"] and metrics["cost"] of every model: for a
\* model whose metrics are the empty dictionary that is a KeyError.
CompareModels(models, model_results) ==
    LET metrics == [m \in DOMAIN model_results |->
                       CalculateExecutionMetrics(model_results[m])]
        success_rate == [m \in DOMAIN model_results |->
                            CalculateSuccessRate(model_results[m])]
    IN  IF models = <<>>
        THEN [raised |-> FALSE, error |-> NoneVal, best |-> NoneVal]
        ELSE IF \E m \in DOMAIN model_results : metrics[m].empty
             THEN [raised |-> TRUE, error |-> "KeyError: 'execution_time'",
                   best |-> NoneVal]
             ELSE [raised |-> FALSE, error |-> NoneVal,
                   best |->
                     [fastest |->
                          FirstLeast(models,
                              [m \in DOMAIN model_results |->
                                  metrics[m].execution_time_mean]),
                      cheapest |->
                          FirstLeast(models,
                              [m \in DOMAIN model_results |->
                                  metrics[m].cost_total]),
                      most_successful |-> FirstGreatest(models, success_rate)]]

EvalCall(name, compared) ==
    [op |-> name, raised |-> compared.raised, error |-> compared.error,
     best |-> compared.best]

EvalInit ==
    /\ eval_pc = "idle"
    /\ eval_models = <<>>
    /\ eval_index = 1
    /\ eval_results = << >>
    /\ eval_failed = {}
    /\ eval_raised = {}
    /\ eval_call = [op |-> "init", raised |-> FALSE, error |-> NoneVal,
                    best |-> NoneVal]

\* ModelEvaluator(models) and the entry of run_evaluation
RunEvaluation ==
    /\ eval_pc = "idle"
    /\ \E models \in ModelLists : eval_models' = models
    /\ eval_pc' = "running"
    /\ UNCHANGED <<eval_index, eval_results, eval_failed, eval_raised, eval_call>>
    /\ UNCHANGED <<agent_vars, cache_vars, key_vars, twin_vars, store_vars,
                   app_vars, more_vars>>

\* one pass of "for model_name in self.models": the agent is constructed
\* and every test case executed, a test case that raises being recorded
\* as an error result; if the construction raises, the model's list is empty
EvaluateModel ==
    /\ eval_pc = "running"
    /\ eval_index <= Len(eval_models)
    /\ LET model_name == eval_models[eval_index]
       IN  \E create_fails \in BOOLEAN,
              executes \in [1..NumTestCases -> BOOLEAN] :
            /\ (model_name \notin SUPPORTED_MODELS => create_fails)
            /\ (create_fails => \A i \in 1..NumTestCases : executes[i])
            /\ LET model_results ==
                       IF create_fails
                       THEN <<>>
                       ELSE ModelResults(model_name, executes)
               IN  eval_results' =
                       [m \in DOMAIN eval_results \cup {model_name} |->
                           IF m = model_name THEN model_results
                           ELSE eval_results[m]]
            /\ eval_failed' = IF create_fails
                              THEN eval_failed \cup {model_name}
                              ELSE eval_failed
            /\ eval_raised' =
                  eval_raised \cup
                  {<<model_name, i>> : i \in {k \in 1..NumTestCases : ~executes[k]}}
    /\ eval_index' = eval_index + 1
    /\ eval_pc' = IF eval_index = Len(eval_models) THEN "evaluated" ELSE "running"
    /\ UNCHANGED <<eval_models, eval_call>>
    /\ UNCHANGED <<agent_vars, cache_vars, key_vars, twin_vars, store_vars,
                   app_vars, more_vars>>

\* ModelEvaluator.calculate_comparison
CalculateComparison ==
    /\ eval_pc = "evaluated"
    /\ eval_call' = EvalCall("calculate_comparison",
                             CompareModels(eval_models, eval_results))
    /\ UNCHANGED <<eval_pc, eval_models, eval_index, eval_results, eval_failed,
                   eval_raised>>
    /\ UNCHANGED <<agent_vars, cache_vars, key_vars, twin_vars, store_vars,
                   app_vars, more_vars>>

\* ModelEvaluator.save_results: the comparison is computed while the
\* document is put together, before the file is opened
SaveResults ==
    /\ eval_pc = "evaluated"
    /\ eval_call' = EvalCall("save_results",
                             CompareModels(eval_models, eval_results))
    /\ UNCHANGED <<eval_pc, eval_models, eval_index, eval_results, eval_failed,
                   eval_raised>>
    /\ UNCHANGED <<agent_vars, cache_vars, key_vars, twin_vars, store_vars,
                   app_vars, more_vars>>

EvalNext == RunEvaluation \/ EvaluateModel \/ CalculateComparison \/ SaveResults

(***************************************************************************)
(* The query endpoint (src/api/routers/agent.py) with the request schema   *)
(* (src/api/schemas/agent.py).  Temperatures are counted in tenths.        *)
(***************************************************************************)

\* the JSON bodies posted to /agent/query
RequestBodies ==
    [query : {"", "q1"}, model : {"gpt-4o-mini"}, temperature : {-1, 1, 11},
     max_iterations : {0, 1, 11}]

\* a plausible slip: the schema without the bounds of max_iterations
ValidRequestAnyIterations(body) ==
    /\ Len(body.query) >= 1
    /\ Len(body.query) <= 2000
    /\ body.temperature >= 0
    /\ body.temperature <= 10

\* the Field constraints of AgentQueryRequest
ValidRequest(body) ==
    /\ Len(body.query) >= 1
    /\ Len(body.query) <= 2000
    /\ body.temperature >= 0
    /\ body.temperature <= 10
    /\ body.max_iterations >= 1
    /\ body.max_iterations <= 10

HttpResponse(body, status, flip) ==
    [called |-> TRUE, body |-> body, status |-> status, flip |-> flip]

RouterInit ==
    http_last = [called |-> FALSE,
                 body |-> [query |-> "", model |-> "gpt-4o-mini",
                           temperature |-> 1, max_iterations |-> 1],
                 status |-> 0, flip |-> FALSE]

\* POST /agent/query.  The body is validated against AgentQueryRequest
\* before execute_agent_query is called; a body that fails is answered 422.
\* Otherwise the handler awaits service.execute_query: a returned result is
\* answered 200, any exception 500.
ExecuteAgentQuery ==
    /\ hits + misses < MaxLookups
    /\ next_uuid <= MaxUuid
    /\ \E body \in RequestBodies :
        IF ~ValidRequest(body)
        THEN /\ http_last' = HttpResponse(body, 422, ~http_last.flip)
             /\ UNCHANGED cache_vars
        ELSE /\ ExecuteQueryOn(<<body.query, body.model,
                                 FormatTemperature(body.temperature)>>,
                               body.max_iterations)
             /\ next_uuid' = next_uuid + 1
             /\ UNCHANGED now
             /\ http_last' = HttpResponse(body,
                                          IF last_op'.hit THEN 200 ELSE 500,
                                          ~http_last.flip)
    /\ UNCHANGED <<agent_vars, key_vars, twin_vars, store_vars, app_vars,
                   eval_vars, tool_vars, parse_vars, bucket_vars>>

\* the endpoint with the callers that store results in the cache
RouterNext == Set \/ ExecuteAgentQuery

(***************************************************************************)
(* The currency tool (src/tools/currency_tool.py).  Rates are counted in   *)
(* ten-thousandths (the four decimals _format_result prints), amounts in   *)
(* hundredths; the text _format_result builds is kept as the record of     *)
(* the values it prints.                                                   *)
(***************************************************************************)

\* CurrencyPriceTool.supported_currencies
supported_currencies ==
    <<"USD", "EUR", "GBP", "JPY", "CHF", "CAD", "AUD", "MXN", "BRL", "CNY">>

\* currency_names of _parse_query, in the order of the dictionary
currency_names ==
    << <<"DOLLAR", "USD">>, <<"DOLAR", "USD">>, <<"EURO", "EUR">>,
       <<"POUND", "GBP">>, <<"STERLING", "GBP">>, <<"YEN", "JPY">>,
       <<"FRANC", "CHF">>, <<"CANADIAN", "CAD">>, <<"AUSTRALIAN", "AUD">>,
       <<"AUSSIE", "AUD">>, <<"PESO", "MXN">>, <<"REAL", "BRL">>,
       <<"YUAN", "CNY">>, <<"RENMINBI", "CNY">> >>

LowerLetters == "abcdefghijklmnopqrstuvwxyz"

UpperLetters == "ABCDEFGHIJKLMNOPQRSTUVWXYZ"

\* str.upper on one character
UpperChar(c) ==
    IF \E i \in 1..26 : SubSeq(LowerLetters, i, i) = c
    THEN LET i == CHOOSE j \in 1..26 : SubSeq(LowerLetters, j, j) = c
         IN  SubSeq(UpperLetters, i, i)
    ELSE c

\* query.upper()
RECURSIVE Upper(_)
Upper(s) ==
    IF s = "" THEN ""
    ELSE UpperChar(SubSeq(s, 1, 1)) \o Upper(SubSeq(s, 2, Len(s)))

StartsWith(s, prefix) ==
    /\ Len(s) >= Len(prefix)
    /\ SubSeq(s, 1, Len(prefix)) = prefix

\* str.replace(old, new): every occurrence, left to right
RECURSIVE Replace(_, _, _)
Replace(s, old, new) ==
    IF s = "" THEN ""
    ELSE IF StartsWith(s, old)
         THEN new \o Replace(SubSeq(s, Len(old) + 1, Len(s)), old, new)
         ELSE SubSeq(s, 1, 1) \o Replace(SubSeq(s, 2, Len(s)), old, new)

\* "for name, code in currency_names.items(): query_upper = ...replace(...)"
\* over the first n names
RECURSIVE ReplaceNames(_, _)
ReplaceNames(s, n) ==
    IF n = 0 THEN s
    ELSE Replace(ReplaceNames(s, n - 1), currency_names[n][1],
                 currency_names[n][2])

\* "curr in query_upper"
Contains(s, sub) ==
    \E i \in 1..(Len(s) - Len(sub) + 1) : SubSeq(s, i, i + Len(sub) - 1) = sub

\* "for curr in self.supported_currencies: if curr in query_upper: append"
FoundCurrencies(query_upper) ==
    SelectSeq(supported_currencies, LAMBDA c : Contains(query_upper, c))

IsDigit(c) == \E d \in 1..10 : Digits[d] = c

DigitValue(c) == (CHOOSE d \in 1..10 : Digits[d] = c) - 1

\* the value of a run of digits
RECURSIVE DigitsValue(_)
DigitsValue(s) ==
    IF s = "" THEN 0
    ELSE 10 * DigitsValue(SubSeq(s, 1, Len(s) - 1))
         + DigitValue(SubSeq(s, Len(s), Len(s)))

\* the end of the run of digits that starts at position i
RECURSIVE RunEnd(_, _)
RunEnd(s, i) ==
    IF i < Len(s) /\ IsDigit(SubSeq(s, i + 1, i + 1)) THEN RunEnd(s, i + 1)
    ELSE i

\* re.search(r"(\d+(?:\.\d+)?)", query) and float(group(1)), in hundredths
\* (digits after the second decimal are dropped); 1.0 when nothing matches
ParseAmount(text) ==
    IF \E i \in 1..Len(text) : IsDigit(SubSeq(text, i, i))
    THEN LET first == CHOOSE i \in 1..Len(text) :
                          /\ IsDigit(SubSeq(text, i, i))
                          /\ \A j \in 1..(i - 1) : ~IsDigit(SubSeq(text, j, j))
             last == RunEnd(text, first)
             whole == DigitsValue(SubSeq(text, first, last))
             has_fraction ==
                 /\ last + 2 <= Len(text)
                 /\ SubSeq(text, last + 1, last + 1) = "."
                 /\ IsDigit(SubSeq(text, last + 2, last + 2))
             frac_last == IF has_fraction THEN RunEnd(text, last + 2) ELSE last
             frac == IF has_fraction
                     THEN SubSeq(SubSeq(text, last + 2, frac_last) \o "0", 1, 2)
                     ELSE "00"
         IN  100 * whole + DigitsValue(frac)
    ELSE 100

\* CurrencyPriceTool._parse_query
ParseQuery(text) ==
    LET query_upper == ReplaceNames(Upper(text), Len(currency_names))
        amount == ParseAmount(text)
        found_currencies == FoundCurrencies(query_upper)
    IN  IF Len(found_currencies) >= 2
        THEN [from_currency |-> found_currencies[1],
              to_currency |-> found_currencies[2], amount |-> amount]
        ELSE IF Len(found_currencies) = 1
             THEN IF found_currencies[1] = "USD"
                  THEN [from_currency |-> "USD", to_currency |-> "EUR",
                        amount |-> amount]
                  ELSE [from_currency |-> "USD",
                        to_currency |-> found_currencies[1], amount |-> amount]
             ELSE [from_currency |-> NoneVal, to_currency |-> NoneVal,
                   amount |-> amount]

\* mock_rates of _use_fallback_data, in ten-thousandths
mock_rates ==
    [p \in { <<"USD", "EUR">>, <<"USD", "GBP">>, <<"USD", "JPY">>,
             <<"USD", "CHF">>, <<"USD", "CAD">>, <<"USD", "AUD">>,
             <<"USD", "MXN">>, <<"USD", "BRL">>, <<"USD", "CNY">>,
             <<"EUR", "USD">>, <<"GBP", "USD">> } |->
        CASE p = <<"USD", "EUR">> -> 9200
          [] p = <<"USD", "GBP">> -> 7900
          [] p = <<"USD", "JPY">> -> 1495000
          [] p = <<"USD", "CHF">> -> 8800
          [] p = <<"USD", "CAD">> -> 13500
          [] p = <<"USD", "AUD">> -> 15200
          [] p = <<"USD", "MXN">> -> 172000
          [] p = <<"USD", "BRL">> -> 49800
          [] p = <<"USD", "CNY">> -> 72400
          [] p = <<"EUR", "USD">> -> 10900
          [] p = <<"GBP", "USD">> -> 12700]

\* the rate the exchange-rate service quotes for a pair (one value for all
\* pairs, different from every rate of the fallback table)
LiveRate == 9305

\* CurrencyPriceTool._format_result, as the values it prints
FormatResult(from_currency, to_currency, rate, amount) ==
    [kind |-> "result", from_currency |-> from_currency,
     to_currency |-> to_currency, rate |-> rate, amount |-> amount,
     note |-> FALSE, message |-> NoneVal]

\* CurrencyPriceTool._format_error
FormatError(message) ==
    [kind |-> "error", from_currency |-> NoneVal, to_currency |-> NoneVal,
     rate |-> 0, amount |-> 0, note |-> FALSE,
     message |-> "Error: " \o message]

\* a plausible slip: the fallback result without the note
UseFallbackDataSilently(from_currency, to_currency, amount) ==
    IF <<from_currency, to_currency>> \in DOMAIN mock_rates
    THEN FormatResult(from_currency, to_currency,
                      mock_rates[<<from_currency, to_currency>>], amount)
    ELSE IF <<to_currency, from_currency>> \in DOMAIN mock_rates
         THEN FormatResult(from_currency, to_currency,
                           RoundHalfEven(100000000,
                               mock_rates[<<to_currency, from_currency>>]),
                           amount)
         ELSE FormatError("Unable to fetch exchange rate for " \o from_currency
                          \o " to " \o to_currency \o ". API unavailable and "
                          \o "no mock data for this pair.")

\* CurrencyPriceTool._use_fallback_data: the rate of the pair, else one
\* over the rate of the inverse pair (rounded to the four decimals that are
\* printed), else the error text
UseFallbackData(from_currency, to_currency, amount) ==
    IF <<from_currency, to_currency>> \in DOMAIN mock_rates
    THEN [FormatResult(from_currency, to_currency,
                       mock_rates[<<from_currency, to_currency>>], amount)
             EXCEPT !.note = TRUE]
    ELSE IF <<to_currency, from_currency>> \in DOMAIN mock_rates
         THEN [FormatResult(from_currency, to_currency,
                            RoundHalfEven(100000000,
                                mock_rates[<<to_currency, from_currency>>]),
                            amount)
                  EXCEPT !.note = TRUE]
         ELSE FormatError("Unable to fetch exchange rate for " \o from_currency
                          \o " to " \o to_currency \o ". API unavailable and "
                          \o "no mock data for this pair.")

\* cache_key of _get_exchange_rate
ToolCacheKey(from_currency, to_currency) == from_currency \o "_" \o to_currency

\* CurrencyPriceTool._get_exchange_rate at time t, api_ok telling whether the
\* HTTP request succeeds: the rate it returns (has_rate FALSE for None) and
\* the cache it leaves
GetExchangeRate(cached, from_currency, to_currency, t, api_ok) ==
    LET cache_key == ToolCacheKey(from_currency, to_currency)
    IN  IF cache_key \in DOMAIN cached /\ t - cached[cache_key] < cache_ttl
        THEN [has_rate |-> TRUE, rate |-> LiveRate, cache |-> cached,
              api_called |-> FALSE]
        ELSE IF api_ok
             THEN [has_rate |-> TRUE, rate |-> LiveRate,
                   cache |-> [k \in DOMAIN cached \cup {cache_key} |->
                                 IF k = cache_key THEN t ELSE cached[k]],
                   api_called |-> TRUE]
             ELSE [has_rate |-> FALSE, rate |-> 0, cache |-> cached,
                   api_called |-> TRUE]

\* the queries handed to _run: the examples of the tool's description and
\* three more
ToolQueries ==
    {"USD to EUR", "euro dollar rate", "current EUR price", "100 USD in GBP",
     "EUR to USD", "GBP to JPY", "hello"}

\* _parse_query on each of these queries
ParsedToolQueries == [q \in ToolQueries |-> ParseQuery(q)]

ToolInit ==
    /\ tool_cache = <<>>
    /\ tool_now = 0
    /\ tool_last = [called |-> FALSE, query |-> NoneVal,
                    from_currency |-> NoneVal, to_currency |-> NoneVal,
                    api_failed |-> FALSE, raised |-> FALSE,
                    output |-> FormatError(NoneVal)]
    /\ parsed = [called |-> FALSE, first |-> NoneVal, second |-> NoneVal,
                 query |-> NoneVal, from_currency |-> NoneVal,
                 to_currency |-> NoneVal, amount |-> 0]

ToolTick ==
    /\ tool_now < ToolMaxTime
    /\ tool_now' = tool_now + 1
    /\ UNCHANGED <<tool_cache, tool_last, parse_vars, router_vars,
                   bucket_vars>>
    /\ UNCHANGED <<agent_vars, cache_vars, key_vars, twin_vars, store_vars,
                   app_vars, eval_vars>>

\* CurrencyPriceTool._run
ToolRun ==
    \E q \in ToolQueries, api_ok \in BOOLEAN :
        LET p == ParsedToolQueries[q]
            got == GetExchangeRate(tool_cache, p.from_currency, p.to_currency,
                                   tool_now, api_ok)
        IN  /\ IF p.from_currency = NoneVal \/ p.to_currency = NoneVal
               THEN /\ tool_last' =
                          [called |-> TRUE, query |-> q,
                           from_currency |-> NoneVal, to_currency |-> NoneVal,
                           api_failed |-> FALSE, raised |-> FALSE,
                           output |-> FormatError(
                               "Could not understand currency query. "
                               \o "Please specify currencies like 'USD to EUR' "
                               \o "or 'dollar to euro'.")]
                    /\ UNCHANGED tool_cache
               ELSE /\ tool_last' =
                          [called |-> TRUE, query |-> q,
                           from_currency |-> p.from_currency,
                           to_currency |-> p.to_currency,
                           api_failed |-> got.api_called /\ ~got.has_rate,
                           raised |-> FALSE,
                           output |->
                               IF got.has_rate
                               THEN FormatResult(p.from_currency, p.to_currency,
                                                 got.rate, p.amount)
                               ELSE UseFallbackData(p.from_currency,
                                                    p.to_currency, p.amount)]
                    /\ tool_cache' = got.cache
            /\ UNCHANGED <<tool_now, parse_vars, router_vars,
                   bucket_vars>>
            /\ UNCHANGED <<agent_vars, cache_vars, key_vars, twin_vars,
                           store_vars, app_vars, eval_vars>>

ToolNext == ToolTick \/ ToolRun

\* the two phrasings of the description that name a pair
PairQuery(phrase, a, b) ==
    IF phrase = "to" THEN a \o " to " \o b ELSE "100 " \o a \o " in " \o b

\* the queries of these phrasings over the supported currencies
PairQueries ==
    {PairQuery(phrase, supported_currencies[i], supported_currencies[j]) :
        phrase \in {"to", "in"},
        i \in 1..Len(supported_currencies), j \in 1..Len(supported_currencies)}

\* _parse_query on each of these queries
ParsedPairQueries == [q \in PairQueries |-> ParseQuery(q)]

\* a call of _parse_query on a query naming two supported currencies
ParseCall ==
    \E phrase \in {"to", "in"},
       i \in 1..Len(supported_currencies), j \in 1..Len(supported_currencies) :
        /\ i # j
        /\ LET a == supported_currencies[i]
               b == supported_currencies[j]
               q == PairQuery(phrase, a, b)
               p == ParsedPairQueries[q]
           IN  parsed' = [called |-> TRUE, first |-> a, second |-> b,
                          query |-> q, from_currency |-> p.from_currency,
                          to_currency |-> p.to_currency, amount |-> p.amount]
        /\ UNCHANGED <<tool_vars, router_vars, bucket_vars>>
        /\ UNCHANGED <<agent_vars, cache_vars, key_vars, twin_vars, store_vars,
                       app_vars, eval_vars>>

ParseNext == ParseCall

Init ==
    /\ AgentInit /\ CacheInit /\ KeyInit /\ TwinInit /\ StoreInit /\ AppInit
    /\ EvalInit /\ ToolInit /\ RouterInit /\ BucketInit

Next == AgentNext

\* the reasoning loops on their own
Spec == Init /\ [][Next]_vars

\* the loops under the scheduling of the code: a started run is a plain
\* sequential call, so its next statement is always executed
FairSpec == Spec /\ WF_vars(LoopStep)

\* the query cache driven through its own interface
CacheSpec == Init /\ [][CacheNext]_vars

\* the query cache shared by its direct callers and the service
ServiceSpec == Init /\ [][ServiceNext]_vars

\* CoTReActAgent.run and run_agent driven by the same inputs
TwinSpec == Init /\ [][TwinNext]_vars

\* the HTTP application serving requests
AppSpec == Init /\ [][AppNext]_vars

\* one model comparison
EvalSpec == Init /\ [][EvalNext]_vars

\* the cache fingerprint applied to pairs of request triples
KeySpec == Init /\ [][KeyNext]_vars

\* the query endpoint and the cache behind it
RouterSpec == Init /\ [][RouterNext]_vars

\* one token bucket and its clock
BucketSpec == Init /\ [][BucketNext]_vars

\* the rate limiter's middleware called request by request
LimiterSpec == Init /\ [][LimiterNext]_vars

\* the currency tool called by its users
ToolSpec == Init /\ [][ToolNext]_vars

\* the parsing of currency queries that name a pair
ParseSpec == Init /\ [][ParseNext]_vars

(***************************************************************************)
(* Properties of the reasoning loops.                                      *)
(***************************************************************************)
Running == pc \in {"thinking", "acting"}

LastStep == reasoning_trace[Len(reasoning_trace)]

ErrorObservation(s) ==
    /\ s.type = "observation"
    /\ s.content \notin {ToolOutput(t) : t \in ToolNames}

\* C1: at every point of every run of either loop, each entry of the
\* reasoning trace carries its 1-based position as its step number.
C1_StepIsPosition ==
    \A i \in 1..Len(reasoning_trace) : reasoning_trace[i].step = i

\* C2: a run of the CoT loop that ends by exhausting its cap returns the
\* fixed fallback answer, confidence LOW, max_iterations_reached = True and
\* iterations equal to the configured cap, having made exactly that many
\* model invocations none of which was tool-free.
C2_MaxIterResult ==
    (pc = "max_iter" /\ agent_type = "cot") =>
        /\ result.answer = MAX_ITER_ANSWER_COT
        /\ result.metadata.confidence = "LOW"
        /\ result.metadata.max_iterations_reached = TRUE
        /\ result.metadata.iterations = max_iterations
        /\ iteration_count = max_iterations
        /\ \A i \in 1..Len(reasoning_trace) :
              reasoning_trace[i].type # "synthesis"

C2_Witness ==
    /\ pc = "max_iter"
    /\ agent_type = "cot"
    /\ max_iterations = 2
    /\ Cardinality({i \in 1..Len(reasoning_trace) :
                       reasoning_trace[i].type = "action"}) >= 2

\* C4: a started run of either loop never makes more than max_iterations
\* model invocations, is in DONE only with a final step closing its trace,
\* is in MAX_ITER_REACHED only after exactly max_iterations invocations, and
\* always terminates (in DONE, in MAX_ITER_REACHED, or, when the model
\* invocation itself raises, with that exception), whatever the model
\* answers and whether the tools return or raise.
C4_Terminates ==
    /\ [](iteration_count <= max_iterations)
    /\ [](pc = "done" =>
            /\ LastStep.type \in {"synthesis", "thought"}
            /\ \A i \in 1..(Len(reasoning_trace) - 1) :
                  reasoning_trace[i].type \notin {"synthesis", "thought"})
    /\ [](pc = "max_iter" => iteration_count = max_iterations)
    /\ (Running ~> (pc \in Terminal))

C4_Witness ==
    /\ pc = "done"
    /\ agent_type = "react"
    /\ iteration_count = max_iterations
    /\ max_iterations = MaxCap
    /\ \E i \in 1..Len(reasoning_trace) : ErrorObservation(reasoning_trace[i])

\* C5 as claimed: every run that ends in DONE has a last trace entry of type
\* synthesis whose content is the returned answer.
C5_LastIsSynthesis ==
    pc = "done" =>
        /\ LastStep.type = "synthesis"
        /\ result.answer = LastStep.content

\* C5 as amended: every run that ends in DONE has a last trace entry of the
\* loop's final kind (synthesis for CoTReActAgent.run, thought for
\* run_agent) whose content is the returned answer.
C5_LastIsFinalKind ==
    pc = "done" =>
        /\ LastStep.type = (IF agent_type = "cot" THEN "synthesis" ELSE "thought")
        /\ result.answer = LastStep.content

C5_Witness ==
    /\ pc = "done"
    /\ agent_type = "cot"
    /\ Len(reasoning_trace) > 4
    /\ LastStep.type = "synthesis"

\* the characters of the contents of a sequence of steps
RECURSIVE ContentChars(_)
ContentChars(steps) ==
    IF steps = <<>> THEN 0
    ELSE Len(Head(steps).content) + ContentChars(Tail(steps))

\* C21 as claimed: the token estimate of an execution is input = (characters
\* of the query plus the contents of all trace steps) // 4, output =
\* (characters of the answer) // 4, total = input + output.
C21_TokensOverAllSteps ==
    exec_metrics.computed =>
        /\ exec_metrics.estimated_tokens.input =
              (Len(query) + ContentChars(reasoning_trace)) \div 4
        /\ exec_metrics.estimated_tokens.output = Len(result.answer) \div 4
        /\ exec_metrics.estimated_tokens.total =
              exec_metrics.estimated_tokens.input + exec_metrics.estimated_tokens.output

\* C21 as amended: the token estimate of an execution is input = (characters
\* of the query plus the contents of the query, action and observation
\* steps of the trace) // 4, output = (characters of the answer) // 4,
\* total = input + output, all with truncating integer division.
C21_TokensOverCountedSteps ==
    exec_metrics.computed =>
        /\ exec_metrics.estimated_tokens.input =
              (Len(query)
               + ContentChars(SelectSeq(reasoning_trace,
                     LAMBDA s : s.type \in {"query", "action", "observation"})))
              \div 4
        /\ exec_metrics.estimated_tokens.output = Len(result.answer) \div 4
        /\ exec_metrics.estimated_tokens.total =
              exec_metrics.estimated_tokens.input + exec_metrics.estimated_tokens.output

C21_Witness ==
    /\ exec_metrics.computed
    /\ agent_type = "cot"
    /\ pc = "done"
    /\ \E i \in 1..Len(reasoning_trace) : reasoning_trace[i].type = "thinking"
    /\ \E i \in 1..Len(reasoning_trace) : reasoning_trace[i].type = "observation"
    /\ exec_metrics.estimated_tokens.input * 4 <
          Len(query) + ContentChars(SelectSeq(reasoning_trace,
              LAMBDA s : s.type \in {"query", "action", "observation"}))
    /\ exec_metrics.estimated_tokens.output * 4 < Len(result.answer)

\* C25: for a model response carrying k tool-call requests, the loop
\* invokes each requested tool exactly once, in the order requested, with
\* no model invocation in between and no retry (also when a tool fails or
\* reflection is enabled): while requests are pending every step of the
\* loop takes the first pending request off the list, appends an action
\* step for that tool immediately followed by its observation step (and,
\* with reflection, the reflection step), and appends one tool-role message
\* carrying the observation's text; the pending list is the response's.
C25_EachRequestedToolOnceInOrder ==
    [][ /\ (pc = "thinking" /\ pc' = "acting") =>
               /\ iteration_count' = iteration_count + 1
               /\ \E r \in ToolCallingResponses : tool_calls' = r.tool_calls
        /\ pc = "acting" =>
               LET n == Len(reasoning_trace)
                   reflects == agent_type = "cot" /\ enable_reflection
               IN  /\ tool_calls # <<>>
                   /\ tool_calls' = Tail(tool_calls)
                   /\ pc' = IF Tail(tool_calls) = <<>> THEN "thinking" ELSE "acting"
                   /\ iteration_count' = iteration_count
                   /\ Len(reasoning_trace') = n + (IF reflects THEN 3 ELSE 2)
                   /\ SubSeq(reasoning_trace', 1, n) = reasoning_trace
                   /\ reasoning_trace'[n + 1].type = "action"
                   /\ reasoning_trace'[n + 1].tool = Head(tool_calls)
                   /\ reasoning_trace'[n + 2].type = "observation"
                   /\ reflects => reasoning_trace'[n + 3].type = "reflection"
                   /\ messages' =
                         Append(messages,
                                Msg("tool", reasoning_trace'[n + 2].content)) ]_vars

C25_Witness ==
    /\ pc = "thinking"
    /\ agent_type = "cot"
    /\ enable_reflection
    /\ iteration_count = 1
    /\ tool_calls = <<>>
    /\ Len(reasoning_trace) >= 7
    /\ LET n == Len(reasoning_trace)
       IN  /\ [i \in 1..6 |-> reasoning_trace[n - 6 + i].type] =
                <<"action", "observation", "reflection",
                  "action", "observation", "reflection">>
           /\ reasoning_trace[n - 5].tool = "pink_floyd_database"
           /\ StartsWith(reasoning_trace[n - 4].content, "Error executing tool")
           /\ reasoning_trace[n - 2].tool = "currency_price_checker"
           /\ reasoning_trace[n - 1].content = ToolOutput("currency_price_checker")
    /\ Len(messages) = 5

StepKinds(trace) == [i \in 1..Len(trace) |-> trace[i].type]

ActionSteps(trace) == SelectSeq(trace, LAMBDA s : s.type = "action")

\* C13: an execution (a CoT run started by AgentExecutor.execute) in which
\* the model first requests one pink_floyd_database call and then answers
\* without tool calls ends with the trace [query, (thinking), action,
\* observation, synthesis] and nothing else, and the tools_used scan of
\* that trace gives ["pink_floyd_database"].
C13_ScenarioTrace ==
    ( /\ caller = "executor"
      /\ agent_type = "cot"
      /\ pc = "done"
      /\ iteration_count = 2
      /\ Len(ActionSteps(reasoning_trace)) = 1
      /\ ActionSteps(reasoning_trace)[1].tool = "pink_floyd_database" )
    => ( /\ StepKinds(reasoning_trace) \in
               { <<"query", "action", "observation", "synthesis">>,
                 <<"query", "thinking", "action", "observation", "synthesis">> }
         /\ ToolsUsed(reasoning_trace) = <<"pink_floyd_database">> )

\* the query, action, observation and final steps of a trace, each with its
\* kind, content and tool (synthesis and thought are the two final kinds)
Comparable(trace) ==
    LET kept == SelectSeq(trace, LAMBDA s : s.type \in
                    {"query", "action", "observation", "synthesis", "thought"})
    IN  [i \in 1..Len(kept) |->
            [kind |-> IF kept[i].type \in {"synthesis", "thought"}
                      THEN "final" ELSE kept[i].type,
             content |-> kept[i].content,
             tool |-> kept[i].tool]]

\* C14: run_agent and CoTReActAgent.run, given the same query, cap, model
\* responses and tool outcomes, are at every point in the same state (same
\* position, same number of model invocations, same pending tool calls),
\* have recorded the same query/action/observation/final steps with the
\* same contents, and return the same answer.
C14_LoopsAgree ==
    /\ twin.pc = pc
    /\ twin.iteration_count = iteration_count
    /\ twin.tool_calls = tool_calls
    /\ Comparable(twin.reasoning_trace) = Comparable(reasoning_trace)
    /\ (pc \in {"done", "max_iter"} => twin.answer = result.answer)

\* C12: when a tool raises inside the CoT loop, the observation step
\* recorded for it reads "Error executing tool '<name>': <message>", the
\* exception does not leave run (the loop is still running after the step),
\* and when iterations remain the loop goes on to one more model invocation.
C12_ToolErrorIsObserved ==
    /\ [][ (pc = "acting" /\ agent_type = "cot" /\ tool_raised'
             /\ tool_calls' # tool_calls)
            => LET observation == reasoning_trace'[Len(reasoning_trace) + 2]
               IN  /\ observation.type = "observation"
                   /\ observation.content =
                        "Error executing tool '" \o Head(tool_calls) \o "': "
                        \o ToolExcMessage
                   /\ pc' \in {"thinking", "acting"} ]_vars
    /\ \A n \in 0..(DefaultMaxIterations - 1) :
          (agent_type = "cot" /\ Running /\ tool_raised
           /\ iteration_count = n /\ n < max_iterations)
          ~> (iteration_count = n + 1)

C12_Witness ==
    /\ agent_type = "cot"
    /\ pc = "done"
    /\ iteration_count = 2
    /\ tool_raised
    /\ \E i \in 1..Len(reasoning_trace) :
          reasoning_trace[i].content =
              "Error executing tool 'pink_floyd_database': boom"

(***************************************************************************)
(* Properties of the service entry point.                                  *)
(***************************************************************************)

\* a step in which execute_query was called: it alone draws a uuid
ExecuteQueryStep == next_uuid' = next_uuid + 1

\* C3: an execute_query call that has to run the agent (cache miss) for a
\* request carrying max_iterations = N runs the loop with N as its cap and
\* ends the way the loop ends, in DONE or in MAX_ITER_REACHED.
C3_RequestCapBoundsLoop ==
    (last_op.op = "execute_query" /\ ~last_op.hit) =>
        /\ last_op.loop_cap = last_op.max_iterations
        /\ last_op.outcome \in {"DONE", "MAX_ITER_REACHED"}

\* C6: when execute_query is called twice in a row with the same (query,
\* model, temperature) within the TTL, both calls return a result and the
\* second is served from the cache: from_cache is True, its execution_id
\* differs from the first call's, its timestamp differs once the clock has
\* advanced, and its answer is the first call's answer.
C6_SecondCallFromCache ==
    [][ ( /\ last_op.op = "execute_query"
          /\ ExecuteQueryStep
          /\ last_op'.key = last_op.key
          /\ now - last_op.at <= ttl_seconds )
        => ( /\ last_op.outcome = "returned"
             /\ last_op'.outcome = "returned"
             /\ last_op'.value.from_cache = TRUE
             /\ last_op'.value.execution_id # last_op.value.execution_id
             /\ (now > last_op.at =>
                    last_op'.value.timestamp # last_op.value.timestamp)
             /\ last_op'.value.answer = last_op.value.answer ) ]_vars

ResultOf(c, key) == c[IndexOf(c, key)].result

\* C7: the payload stored under a key changes only when set() replaces it:
\* across every other step, and across every execute_query hit in
\* particular, a key that stays in the cache keeps the payload set() stored
\* (same execution_id, timestamp and from_cache).
C7_PayloadNeverMutated ==
    [][ \A key \in CacheKeys(cache) \cap CacheKeys(cache') :
            ~(last_op'.op = "set" /\ last_op'.key = key)
            => ResultOf(cache', key) = ResultOf(cache, key) ]_vars

\* C15: an execute_query call in which running the agent fails ends in
\* one ModelError whose details are the model name and the first 100
\* characters of the query, adds no entry to the query cache and saves no
\* execution to the store.
C15_FailureIsModelError ==
    [][ (ExecuteQueryStep /\ ~last_op'.hit)
        => /\ last_op'.outcome = "ModelError"
           /\ \E req \in Requests :
                 /\ KeyOf(req) = last_op'.key
                 /\ last_op'.details.model = req[2]
                 /\ Len(last_op'.details.query) =
                        (IF Len(req[1]) < 100 THEN Len(req[1]) ELSE 100)
                 /\ last_op'.details.query =
                        SubSeq(req[1], 1, Len(last_op'.details.query))
           /\ CacheKeys(cache') \subseteq CacheKeys(cache)
           /\ store' = store ]_vars

C15_Witness ==
    /\ last_op.op = "execute_query"
    /\ last_op.outcome = "ModelError"
    /\ Len(last_op.details.query) = 100
    /\ last_op.key = KeyOf(<<LongQuery, "gpt-4o-mini", "0.1">>)
    /\ Len(cache) = 1

\* C16: an execute_query call that has to run the agent (cache miss)
\* returns the completed result to its caller and leaves it in the query
\* cache under the request's key, whether or not the store saved it.
C16_SaveFailureDoesNotBlock ==
    [][ (ExecuteQueryStep /\ ~last_op'.hit)
        => /\ last_op'.outcome = "returned"
           /\ last_op'.key \in CacheKeys(cache') ]_vars

\* C26: an execution (an execute_query call that runs the agent) returns a
\* result whose tools_used list holds exactly the tool names of the action
\* steps of its trace, each once, in order of first appearance (empty when
\* the trace has no action step).
C26_ToolsUsedFromTrace ==
    [][ (ExecuteQueryStep /\ ~last_op'.hit)
        => /\ last_op'.outcome = "returned"
           /\ last_op'.value.tools_used =
                 ToolsUsed(last_op'.value.reasoning_trace) ]_vars

\* C17: every result execute_query hands to a caller, fresh or served from
\* the cache, can be read back: get_execution_detail of its execution_id
\* returns it.
C17_ReturnedIsPersisted ==
    (last_op.op = "execute_query" /\ last_op.outcome = "returned")
    => /\ GetExecution(store, last_op.value.execution_id).found
       /\ GetExecution(store, last_op.value.execution_id).result = last_op.value

(***************************************************************************)
(* Properties of the query cache.                                          *)
(***************************************************************************)

\* a step in which a lookup of the key was made: it alone counts a hit or miss
LookupStep(key) ==
    /\ hits' + misses' = hits + misses + 1
    /\ last_op'.key = key

\* C8: set stamps the entry with the time of the call (T0); a get of an
\* entry before T0 + ttl_seconds returns the stored result; a get after
\* T0 + ttl_seconds returns None and removes the entry.
C8_TTL ==
    /\ [](last_op.op = "set" =>
            cache[IndexOf(cache, last_op.key)].timestamp = last_op.at)
    /\ [][ \A key \in CacheKeys(cache) :
              LookupStep(key) =>
                LET entry == cache[IndexOf(cache, key)]
                IN  /\ (now < entry.timestamp + ttl_seconds =>
                           /\ last_op'.hit
                           /\ last_op'.value = entry.result)
                    /\ (now > entry.timestamp + ttl_seconds =>
                           /\ ~last_op'.hit
                           /\ last_op'.value = NoneVal
                           /\ key \notin CacheKeys(cache')) ]_vars

C8_Witness ==
    /\ last_op.op = "get"
    /\ last_op.outcome = "expired"
    /\ hits >= 1
    /\ last_op.key \notin CacheKeys(cache)

\* C9: when set inserts a new key into a full cache, exactly one entry is
\* evicted and it is the least recently touched one: the entry whose last
\* successful get or set is the oldest.
C9_EvictsLeastRecentlyTouched ==
    [][ ( /\ last_op'.op = "set"
          /\ last_op'.key \notin CacheKeys(cache)
          /\ Len(cache) >= max_size )
        => ( /\ last_op'.value = Head(touched)
             /\ CacheKeys(cache') =
                   (CacheKeys(cache) \ {Head(touched)}) \cup {last_op'.key} ) ]_vars

C9_Witness ==
    /\ last_op.op = "set"
    /\ last_op.value # NoneVal
    /\ hits >= 1
    /\ Len(cache) = max_size
    /\ cache[1].key = KeyOf(<<"q1", "gpt-4o-mini", "0.1">>)
    /\ last_op.value = KeyOf(<<LongQuery, "gpt-4o-mini", "0.1">>)

\* C10: the cache never holds more than max_size entries, and a set on a
\* key already present removes no entry.
C10_BoundedSize ==
    /\ [](Len(cache) <= max_size)
    /\ [][ (last_op'.op = "set" /\ last_op'.key \in CacheKeys(cache))
            => CacheKeys(cache') = CacheKeys(cache) ]_vars

C10_Witness ==
    /\ last_op.op = "set"
    /\ last_op.outcome = "present"
    /\ Len(cache) = max_size

\* C24: the hit and miss counters account for every lookup: since
\* construction or the last clear, hits + misses equals the number of get
\* calls; each get increments exactly one counter, hits iff it returned a
\* result, and a lookup of an expired entry counts as a miss; set and
\* cleanup_expired change neither counter.
C24_CountersAccountForLookups ==
    /\ [](hits + misses = get_calls)
    /\ [][ /\ get_calls' = get_calls + 1 =>
                /\ last_op'.hit <=> (last_op'.outcome = "hit")
                /\ last_op'.hit =>
                      (hits' = hits + 1 /\ misses' = misses)
                /\ ~last_op'.hit =>
                      (hits' = hits /\ misses' = misses + 1)
                /\ last_op'.outcome = "expired" => misses' = misses + 1
           /\ (get_calls' = get_calls /\ last_op'.op \in {"set", "cleanup_expired"})
                => (hits' = hits /\ misses' = misses) ]_vars

C24_Witness ==
    /\ last_op.op = "get"
    /\ last_op.outcome = "expired"
    /\ hits = 1
    /\ misses = 2
    /\ get_calls = 3

(***************************************************************************)
(* Properties of the cache fingerprint.                                    *)
(***************************************************************************)

\* C11: _generate_cache_key gives equal keys to identical (query, model,
\* temperature) triples and distinct keys to any two triples that differ in
\* at least one of the three.
C11_KeyInjective ==
    fingerprints.computed =>
        ((fingerprints.key_a = fingerprints.key_b)
            <=> (fingerprints.a = fingerprints.b))

(***************************************************************************)
(* Properties of the HTTP application.                                     *)
(***************************************************************************)

\* C18: of the non-/health requests one client sends while no time passes,
\* the application admits at most 60 (the bucket capacity), and a request
\* it rejects is answered 429 with a Retry-After of at least 1 second.
C18_BurstIsLimited ==
    /\ \A c \in Clients : admitted[c] <= capacity
    /\ (last_response.status = 429 => last_response.retry_after >= 1)

\* C19: a request whose handling takes longer than 60 seconds is answered
\* 504, and the result of the handler is not sent to the caller.
C19_SlowRequestTimesOut ==
    last_response.seconds > TimeoutSeconds =>
        /\ last_response.status = 504
        /\ last_response.body # "result"

(***************************************************************************)
(* Properties of the model comparison.                                     *)
(***************************************************************************)

\* C20: a model whose agent could not be constructed during run_evaluation
\* is recorded with an empty result list, every model of the list is
\* recorded all the same, and calculate_comparison and save_results on
\* those results complete without raising.
C20_FailedModelIsNotFatal ==
    (eval_pc = "evaluated" /\ eval_failed # {}) =>
        /\ \A m \in eval_failed : eval_results[m] = <<>>
        /\ DOMAIN eval_results = {eval_models[i] : i \in 1..Len(eval_models)}
        /\ (eval_call.op \in {"calculate_comparison", "save_results"}
               => ~eval_call.raised)

\* C30: after run_evaluation every model whose agent was constructed has
\* exactly one result record per test case, in test-case order, whether the
\* query succeeded or raised; a raising query yields a record whose answer
\* starts with "Error:" and whose time, tokens, cost and steps are 0; a
\* failure on one query skips no later query and no later model.
C30_OneRecordPerTestCase ==
    eval_pc = "evaluated" =>
        /\ DOMAIN eval_results = {eval_models[i] : i \in 1..Len(eval_models)}
        /\ \A m \in DOMAIN eval_results \ eval_failed :
              /\ Len(eval_results[m]) = NumTestCases
              /\ \A i \in 1..NumTestCases :
                    LET r == eval_results[m][i]
                    IN  /\ r.test_case = i
                        /\ <<m, i>> \in eval_raised =>
                              /\ SubSeq(r.answer, 1, 6) = "Error:"
                              /\ r.execution_time_seconds = 0
                              /\ r.estimated_tokens = 0
                              /\ r.estimated_cost_usd = 0
                              /\ r.num_steps = 0
                        /\ <<m, i>> \notin eval_raised =>
                              SubSeq(r.answer, 1, 6) # "Error:"

C30_Witness ==
    /\ eval_pc = "evaluated"
    /\ Len(eval_models) = 2
    /\ <<eval_models[1], 1>> \in eval_raised
    /\ <<eval_models[1], NumTestCases>> \notin eval_raised
    /\ eval_models[2] \notin eval_failed
    /\ Len(eval_results[eval_models[2]]) = NumTestCases

\* C22: the currency tool never raises to its caller; when the rate API
\* call fails for a parsed currency pair, _run returns the conversion
\* computed from the fallback table (USD to EUR at 0.92) with the
\* fallback-data note appended, or an explanatory error text when neither
\* the pair nor its inverse is in the table.
C22_FallbackOnApiFailure ==
    tool_last.called =>
        /\ ~tool_last.raised
        /\ tool_last.api_failed =>
              LET pair == <<tool_last.from_currency, tool_last.to_currency>>
                  inverse == <<tool_last.to_currency, tool_last.from_currency>>
                  out == tool_last.output
              IN  /\ pair = <<"USD", "EUR">> =>
                        out.kind = "result" /\ out.rate = 9200
                  /\ IF pair \in DOMAIN mock_rates \/ inverse \in DOMAIN mock_rates
                     THEN /\ out.kind = "result"
                          /\ out.note
                          /\ out.from_currency = pair[1]
                          /\ out.to_currency = pair[2]
                          /\ pair \in DOMAIN mock_rates =>
                                out.rate = mock_rates[pair]
                     ELSE /\ out.kind = "error"
                          /\ StartsWith(out.message,
                                        "Error: Unable to fetch exchange rate")

C22_Witness ==
    /\ tool_last.called
    /\ tool_last.api_failed
    /\ tool_last.query = "USD to EUR"
    /\ tool_last.output.kind = "result"
    /\ tool_last.output.rate = 9200
    /\ tool_last.output.note
    /\ tool_cache # <<>>

\* C29: when a currency query names two supported currencies, the tool
\* converts from the currency mentioned first in the query to the one
\* mentioned second, for every ordered pair of supported currencies.
C29_FirstMentionedIsSource ==
    parsed.called =>
        /\ parsed.from_currency = parsed.first
        /\ parsed.to_currency = parsed.second

\* a POST /agent/query that was answered with the given status
Answered(status) ==
    /\ http_last' # http_last
    /\ http_last'.status = status

\* C23: a query request with an empty query, a temperature outside [0, 1]
\* or a max_iterations outside [1, 10] is rejected with 422 before the core
\* is invoked: no cache lookup, no agent execution and no store write
\* happen for it.
C23_InvalidRequestIsRejected ==
    [][/\ http_last' # http_last =>
             (( \/ http_last'.body.query = ""
                \/ http_last'.body.temperature < 0
                \/ http_last'.body.temperature > 10
                \/ http_last'.body.max_iterations < 1
                \/ http_last'.body.max_iterations > 10 )
              => http_last'.status = 422)
       /\ Answered(422) =>
             UNCHANGED <<cache_vars, agent_vars, store_vars>>]_vars

C23_Witness ==
    /\ http_last.called
    /\ http_last.status = 422
    /\ http_last.body.query = "q1"
    /\ http_last.body.temperature = 1
    /\ http_last.body.max_iterations = 11
    /\ cache # <<>>
    /\ hits > 0

\* C27: under a non-decreasing clock the token count of a bucket stays
\* within [0, capacity]; consume returns True exactly when at least one
\* token is available after the refill and then removes exactly one token,
\* and a consume that returns False removes none.
C27_TokensWithinCapacity ==
    /\ [](tb.tokens >= 0 /\ tb.tokens <= tb.capacity)
    /\ [][ tb_last' # tb_last =>
             LET refilled == Min(BucketCapacity * TokenUnit,
                                 tb.tokens + (tb_now - tb.last_refill))
             IN  /\ tb_last'.allowed <=> (refilled >= TokenUnit)
                 /\ tb_last'.allowed => tb'.tokens = refilled - TokenUnit
                 /\ ~tb_last'.allowed => tb'.tokens = refilled ]_vars

C27_Witness ==
    /\ tb_last.called
    /\ ~tb_last.allowed
    /\ tb.tokens = 1
    /\ tb.last_refill = tb_now
    /\ tb_now > 0

\* C28: if the set of tracked client identities has grown past the hard
\* cap while requests are handled, the limiter resets wholesale: the
\* request that finds more buckets than the cap leaves none but (at most)
\* its own client's; while the count is at or below the cap no bucket is
\* ever removed.
C28_ResetsPastCap ==
    [][ /\ (Cardinality(DOMAIN buckets) > BucketCap /\ last_response' # last_response)
             => DOMAIN buckets' \subseteq {last_response'.client}
        /\ Cardinality(DOMAIN buckets) <= BucketCap
             => DOMAIN buckets \subseteq DOMAIN buckets' ]_vars
====
